---------------------------- MODULE Spec2Model ----------------------------
(***************************************************************************)
(* A model of the multi-source ingestion engine of early-bird: the source  *)
(* registries (FeedSource, RedditSource, WordPressSource), the RSS feed    *)
(* crawler, the keyword extractor/linker and the master crawl cycle.       *)
(*                                                                         *)
(* Every await of the TypeScript code is a point where another task may    *)
(* run, so a handler is modelled as one action per await-delimited step.   *)
(* A repository call on a source row (findById followed by save) touches   *)
(* one row that only the crawl of that source writes and is one step; the  *)
(* keyword repository calls, which several tasks share, are split at       *)
(* their read and their write.                                             *)
(***************************************************************************)
EXTENDS Integers, Sequences, FiniteSets, TLC

(***************************************************************************)
(* Bounds of the model.                                                    *)
(***************************************************************************)
NumFeeds == 4          \* feed sources in the registry
MaxActiveFeeds == 2    \* active feeds while whole crawls are followed item by item
NumGuids == 2          \* distinct external identifiers the feeds can serve
MaxItems == 1          \* items in one feed payload while several feeds are crawled
MaxBatchItems == 2     \* items in one feed payload while one feed is crawled
MaxRequests == 2       \* POST /crawl/rss/:id requests followed
MaxRawItems == 2       \* items or entries in a feed document
MaxParses == 2         \* fetches of one feed document followed
MaxTime == 1           \* the clock runs from 0 to MaxTime ticks
MaxCycles == 4         \* calls of crawlAllFeeds followed for a single active feed
NumSites == 2          \* sources in each of the subreddit and WordPress registries
MaxActiveSites == 1    \* active sources per provider while repeated crawls are followed
MaxPosts == 1          \* new posts one crawl of a subreddit or site stores
MaxHours == 1          \* hours the clock advances while sites are crawled
MaxCrawls == 6         \* direct calls of crawlAllActiveSources followed
MaxRuns == 2           \* master crawl cycles followed
NumTerms == 2          \* distinct keyword terms the contents mention
NumContents == 2       \* content items whose keywords are processed
MaxKwRuns == 2         \* calls of processContentKeywords and cleanupKeywords followed
MaxAdvances == 3       \* steps of the clock while the due query is observed

(***************************************************************************)
(* Program constants.                                                      *)
(***************************************************************************)
TicksPerMinute == 2    \* clock resolution: the clock is finer than a minute
maxFailures == 5       \* FeedSourceRepository.findSourcesDueForCrawling
MaxErrors == 10        \* FeedSource.recordCrawlError: "Keep only last 10 errors"
concurrency == 3       \* RssFeedCrawlerService.crawlAllFeeds

NoTime == -1           \* SQL NULL of a datetime column
NoVal == 0             \* an absent etag / Last-Modified validator

FeedIds == 1..NumFeeds
Guids == 1..NumGuids
Times == 0..MaxTime

Min(a, b) == IF a <= b THEN a ELSE b
Range(f) == {f[i] : i \in DOMAIN f}

VARIABLES
  now,          \* the wall clock (new Date()), in ticks
  feedSources,  \* table feed_sources: id -> row
  feedContent,  \* table feed_content: sequence of rows, row i has id i
  allPc,        \* crawlAllFeeds: position of the running call
  allSources,   \* crawlAllFeeds: `sources`, the entities the due query returned
  allI,         \* crawlAllFeeds: `i`, offset of the current batch
  allResults,   \* crawlAllFeeds: `results`
  allReturn,    \* crawlAllFeeds: the value the last call returned
  task,         \* crawlFeedSource: one call per source, id -> frame
  cycles,       \* number of crawlAllFeeds calls so far
  siteSources,  \* tables reddit_sources and wordpress_sources: provider -> id -> row
  streak,       \* provider -> id -> crawls of the source that failed in a row
  site,         \* crawlAllActiveSources: one call per provider, provider -> frame
  crawls,       \* number of direct crawlAllActiveSources calls so far
  market,       \* updateBinanceData / updateGreedFearIndex: task -> promise
  master,       \* runFullCrawl / runLightCrawl: the running call and its report
  runs,         \* number of master crawl cycles so far
  keywords,     \* table keywords: sequence of rows, row i has id i
  links,        \* table keyword_content_links: sequence of rows
  upserts,      \* <<keywordId, contentId>> -> frequencies of the completed link upserts
  kwCall,       \* processContentKeywords: one call per content item, id -> frame
  cleanupPc,    \* cleanupKeywords: position of the running call
  kwRuns,       \* number of processContentKeywords and cleanupKeywords calls so far
  advances,     \* number of clock steps so far
  payloadLimit, \* the most items the feed servers publish in one payload
  second,       \* crawlFeedSource: the calls of the request the event loop is
                \* not serving at the moment, id -> frame
  requests,     \* number of POST /crawl/rss/:id requests so far
  text,         \* extractKeywordsFromText: the tokens of the text analysed
  analysis,     \* extractKeywordsFromText: the result of the last call
  rawFeed,      \* parseXmlFeed: the document a feed server publishes
  parses        \* parseXmlFeed: the RssFeedData of the fetches of rawFeed so far

feedVars == <<now, feedSources, feedContent, allPc, allSources, allI,
              allResults, allReturn, task, cycles>>
siteVars == <<siteSources, streak, site, crawls>>
masterVars == <<market, master, runs>>
kwVars == <<keywords, links, upserts, kwCall, cleanupPc, kwRuns>>
requestVars == <<payloadLimit, second, requests>>
extractVars == <<text, analysis>>
parseVars == <<rawFeed, parses>>
nonFeedVars == <<siteVars, masterVars, kwVars, advances, requestVars, extractVars, parseVars>>
nonSiteVars == <<feedVars, kwVars, advances, requestVars, extractVars, parseVars>>
nonKwVars == <<feedVars, siteVars, masterVars, advances, requestVars, extractVars, parseVars>>


(***************************************************************************)
(* FeedSource entity and FeedSourceRepository.                             *)
(***************************************************************************)
\* A freshly created feed_sources row (admin route POST /feed/sources).
NewFeedSource(id, interval) ==
  [id |-> id, isActive |-> TRUE, crawlIntervalMinutes |-> interval,
   lastCrawledAt |-> NoTime, lastSuccessfulCrawlAt |-> NoTime,
   totalArticlesCrawled |-> 0, consecutiveFailures |-> 0,
   crawlErrors |-> <<>>, etag |-> NoVal, lastModified |-> NoVal]

\* MySQL TIMESTAMPDIFF(MINUTE, a, b): whole minutes from a to b, truncated
\* towards zero.
TimestampDiffMinute(a, b) ==
  IF b >= a THEN (b - a) \div TicksPerMinute
            ELSE 0 - ((a - b) \div TicksPerMinute)

\* A WHERE clause that asks for more than the interval to have passed.
IsDueStrictlyAfter(src, t) ==
  /\ src.isActive = TRUE
  /\ src.consecutiveFailures <= maxFailures
  /\ \/ src.lastCrawledAt = NoTime
     \/ TimestampDiffMinute(src.lastCrawledAt, t) > src.crawlIntervalMinutes

\* The WHERE clause of findSourcesDueForCrawling for one row at time t.
IsDueForCrawling(src, t) ==
  /\ src.isActive = TRUE
  /\ src.consecutiveFailures <= maxFailures
  /\ \/ src.lastCrawledAt = NoTime
     \/ TimestampDiffMinute(src.lastCrawledAt, t) >= src.crawlIntervalMinutes

\* All orders of the ids in S.
RECURSIVE Perms(_)
Perms(S) ==
  IF S = {} THEN {<<>>}
  ELSE UNION {{Append(f, id) : f \in Perms(S \ {id})} : id \in S}

\* A query without ORDER BY: the rows come in any order.
Unordered(srcs, f) == TRUE

\* ORDER BY lastCrawledAt ASC: NULL sorts first, the order of equal keys is
\* not specified by MySQL.
OrderedByLastCrawledAt(srcs, f) ==
  \A i, j \in DOMAIN f : i < j => srcs[f[i]].lastCrawledAt <= srcs[f[j]].lastCrawledAt

\* The results findSourcesDueForCrawling can return at time t: the due rows
\* in each order the ORDER BY allows.
findSourcesDueForCrawling(srcs, t) ==
  LET due == {id \in DOMAIN srcs : IsDueForCrawling(srcs[id], t)}
  IN {[i \in DOMAIN f |-> srcs[f[i]]] : f \in {g \in Perms(due) : OrderedByLastCrawledAt(srcs, g)}}

\* FeedSource.recordCrawlError at time t.
recordCrawlError(src, error, t) ==
  LET errors == Append(src.crawlErrors, [timestamp |-> t, error |-> error])
      kept == IF Len(errors) > MaxErrors
              THEN SubSeq(errors, Len(errors) - MaxErrors + 1, Len(errors))
              ELSE errors
  IN [src EXCEPT !.crawlErrors = kept, !.consecutiveFailures = @ + 1]

\* FeedSource.recordSuccessfulCrawl at time t.
recordSuccessfulCrawl(src, t) ==
  [src EXCEPT !.lastSuccessfulCrawlAt = t, !.consecutiveFailures = 0]

\* FeedSourceRepository.updateCrawlStatus: the row it saves.  error = "" is
\* a falsy message, for which neither branch runs.
updateCrawlStatus(src, success, error, t) ==
  LET s1 == [src EXCEPT !.lastCrawledAt = t]
  IN IF success THEN recordSuccessfulCrawl(s1, t)
     ELSE IF error # "" THEN recordCrawlError(s1, error, t)
     ELSE s1

\* FeedSourceRepository.incrementArticleCount: the row it saves.
incrementArticleCount(src) ==
  [src EXCEPT !.totalArticlesCrawled = @ + 1]

\* BaseRepository.update(id, entityData): UPDATE ... SET every column the
\* given entity carries; the row afterwards.
update(row, entityData) == entityData

(***************************************************************************)
(* FeedContent table and FeedContentRepository.                            *)
(***************************************************************************)
\* findByGuid: the ids of the rows with this guid (none: the lookup is null).
findByGuid(rows, guid) == {i \in DOMAIN rows : rows[i].guid = guid}

\* A feed_content table without the unique index on guid.
NoUniqueIndex(rows, guid) == TRUE

\* The unique index on feed_content.guid: may a row with this guid be
\* inserted?
GuidIsFree(rows, guid) == findByGuid(rows, guid) = {}


(***************************************************************************)
(* The remote feed servers (RssFeedApiService.fetchFeed seen from the      *)
(* crawler): the payloads and validators a fetch can return.               *)
(***************************************************************************)
\* <<etag, Last-Modified>> of a response
ResponseValidators == {<<NoVal, NoVal>>, <<1, 1>>}
ItemSeqs == UNION {[1..n -> Guids] : n \in 0..MaxBatchItems}
CrawlIntervals == {0, 1}     \* crawlIntervalMinutes of the configured feeds

FetchErrorMessage == "Failed to fetch RSS feed"
NoDataMessage == "No feed data received"

\* fetchFeed lines 42-52: the conditional headers of the request.  An absent
\* or empty validator sends no header.
RequestHeaders(src) ==
  [ifNoneMatch |-> src.etag, ifModifiedSince |-> src.lastModified]

\* The server can answer 304 to a request that carries a validator.
IsConditional(h) == h.ifNoneMatch # NoVal \/ h.ifModifiedSince # NoVal
StoreErrorMessage == "store error"

(***************************************************************************)
(* RssFeedCrawlerService.crawlFeedSource: the frame of one call.           *)
(***************************************************************************)
IdleFrame(src) ==
  [pc |-> "idle", source |-> src, startTime |-> 0, kind |-> "none",
   items |-> <<>>, respEtag |-> NoVal, respLastModified |-> NoVal,
   idx |-> 0, processed |-> 0, newArticles |-> 0, contentId |-> 0,
   error |-> "", success |-> FALSE, errors |-> <<>>, rowsAtStart |-> 0,
   itemErrors |-> 0, headers |-> RequestHeaders(NewFeedSource(0, 0))]

\* crawlFeedSource(source) up to its first await (the fetch).
StartFrame(src, t, rows) ==
  [IdleFrame(src) EXCEPT !.pc = "fetch", !.startTime = t, !.rowsAtStart = Len(rows),
                         !.headers = RequestHeaders(src)]

\* The RssCrawlResult a finished call returns.
ResultOf(f) ==
  [sourceId |-> f.source.id, success |-> f.success,
   articlesProcessed |-> IF f.success /\ f.kind = "data" THEN Len(f.items) ELSE 0,
   newArticles |-> IF f.success THEN f.newArticles ELSE 0,
   errors |-> f.errors]

\* updateSourceStatistics: the await on incrementArticleCount happens only
\* for newArticlesCount > 0; otherwise the crawl is complete.
AfterItems(f) ==
  IF f.newArticles > 0
  THEN [f EXCEPT !.pc = "stats"]
  ELSE [f EXCEPT !.pc = "done", !.success = TRUE]

\* processFeedItems: `processed++` and the next turn of the for loop.
NextItem(f) ==
  LET g == [f EXCEPT !.processed = @ + 1]
  IN IF f.idx < Len(f.items)
     THEN [g EXCEPT !.pc = "find", !.idx = @ + 1]
     ELSE AfterItems(g)

\* An item whose lookup, insert or update threw: the error is logged (lines
\* 170 and 204; itemErrors counts these log lines) and the loop goes on.
FailItem(f) == NextItem([f EXCEPT !.itemErrors = @ + 1])

\* crawlFeedSource's catch block up to its await.
ToCatch(f, msg) ==
  [f EXCEPT !.pc = "catch", !.error = msg, !.errors = Append(@, msg)]

\* lines 93-95: the throw for a response without data.
NoFeedData(f) == ToCatch(f, NoDataMessage)

\* lines 86-91: the early return for a feed that was not modified.
NotModifiedReturn(f) == [f EXCEPT !.success = TRUE, !.pc = "done"]

\* line 77: await fetchFeed(feedUrl, etag, lastModified)
crawlFeedSource_fetchFeed(s) ==
  /\ UNCHANGED nonFeedVars
  /\ task[s].pc = "fetch"
  /\ \/ task' = [task EXCEPT ![s] = ToCatch(@, FetchErrorMessage)]
     \/ /\ IsConditional(task[s].headers)
        /\ task' = [task EXCEPT ![s].kind = "notModified", ![s].pc = "status"]
     \/ \E items \in ItemSeqs, v \in ResponseValidators :
          /\ Len(items) <= payloadLimit
          /\ task' = [task EXCEPT ![s].kind = "data", ![s].items = items,
                                  ![s].respEtag = v[1], ![s].respLastModified = v[2],
                                  ![s].pc = "status"]
  /\ UNCHANGED <<now, feedSources, feedContent, allPc, allSources, allI,
                 allResults, allReturn, cycles>>

\* line 84: await updateCrawlStatus(source.id, true); lines 86-91 and the
\* synchronous head of updateSourceMetadata (lines 130-133).
crawlFeedSource_updateCrawlStatus(s) ==
  /\ UNCHANGED nonFeedVars
  /\ task[s].pc = "status"
  /\ \/ /\ task' = [task EXCEPT ![s] = ToCatch(@, StoreErrorMessage)]
        /\ UNCHANGED feedSources
     \/ /\ feedSources' = [feedSources EXCEPT ![s] = updateCrawlStatus(@, TRUE, "", now)]
        /\ IF task[s].kind = "notModified"
           THEN task' = [task EXCEPT ![s] = NotModifiedReturn(@)]
           ELSE task' = [task EXCEPT
                  ![s].source.etag =
                     IF task[s].respEtag # NoVal THEN task[s].respEtag ELSE @,
                  ![s].source.lastModified =
                     IF task[s].respLastModified # NoVal THEN task[s].respLastModified ELSE @,
                  ![s].pc = "metadata"]
  /\ UNCHANGED <<now, feedContent, allPc, allSources, allI, allResults, allReturn,
                 cycles>>

\* line 135: await feedSourceRepository.update(source.id, source); an error
\* is logged and swallowed (line 136).  Then the head of processFeedItems.
updateSourceMetadata(s) ==
  /\ UNCHANGED nonFeedVars
  /\ task[s].pc = "metadata"
  /\ \/ feedSources' = [feedSources EXCEPT ![s] = update(@, task[s].source)]
     \/ UNCHANGED feedSources
  /\ task' = [task EXCEPT ![s] =
                IF Len(@.items) = 0 THEN AfterItems(@)
                ELSE [@ EXCEPT !.pc = "find", !.idx = 1]]
  /\ UNCHANGED <<now, feedContent, allPc, allSources, allI, allResults, allReturn,
                 cycles>>

\* An iteration that takes the items from the end of the payload.
LastItemFirst(f) == f.items[Len(f.items) + 1 - f.idx]

\* line 148: for (const item of items): the item of the current turn (an
\* item stands for its guid).
CurrentItem(f) == f.items[f.idx]

\* line 151: await findByGuid(item.guid); a throw is caught per item
\* (line 169).
processFeedItems_findByGuid(s) ==
  /\ UNCHANGED nonFeedVars
  /\ task[s].pc = "find"
  /\ LET guid == CurrentItem(task[s])
     IN \/ task' = [task EXCEPT ![s] = FailItem(@)]          \* the lookup throws
        \/ /\ findByGuid(feedContent, guid) # {}              \* existingContent
           /\ task' = [task EXCEPT ![s] = NextItem(@)]
        \/ /\ findByGuid(feedContent, guid) = {}
           /\ task' = [task EXCEPT ![s].pc = "create"]
  /\ UNCHANGED <<now, feedSources, feedContent, allPc, allSources, allI,
                 allResults, allReturn, cycles>>

\* line 180: await feedContentRepository.create({...}); a throw (store
\* error or unique-index violation) makes createFeedContent return null.
createFeedContent_create(s) ==
  /\ UNCHANGED nonFeedVars
  /\ task[s].pc = "create"
  /\ LET guid == CurrentItem(task[s])
     IN \/ /\ GuidIsFree(feedContent, guid)
           /\ feedContent' = Append(feedContent,
                 [id |-> Len(feedContent) + 1, guid |-> guid, sourceId |-> s,
                  categorized |-> FALSE, extractions |-> 0])
           /\ task' = [task EXCEPT ![s].contentId = Len(feedContent) + 1,
                                   ![s].pc = "update"]
        \/ /\ task' = [task EXCEPT ![s] = FailItem(@)]
           /\ UNCHANGED feedContent
  /\ UNCHANGED <<now, feedSources, allPc, allSources, allI, allResults, allReturn,
                 cycles>>

\* line 202: await feedContentRepository.update(content.id, content); on
\* success lines 161-168 (processContentKeywordsAsync(content), counted in
\* the row's extractions, and newArticles++), on a throw null (line 205).
createFeedContent_update(s) ==
  /\ UNCHANGED nonFeedVars
  /\ task[s].pc = "update"
  /\ \/ /\ feedContent' = [feedContent EXCEPT
                              ![task[s].contentId].categorized = TRUE,
                              ![task[s].contentId].extractions = @ + 1]
        /\ task' = [task EXCEPT ![s] = NextItem([@ EXCEPT !.newArticles = @ + 1])]
     \/ /\ task' = [task EXCEPT ![s] = FailItem(@)]
        /\ UNCHANGED feedContent
  /\ UNCHANGED <<now, feedSources, allPc, allSources, allI, allResults, allReturn,
                 cycles>>

\* line 250: await incrementArticleCount(sourceId); an error is swallowed
\* (line 262).  Then line 108.
updateSourceStatistics(s) ==
  /\ UNCHANGED nonFeedVars
  /\ task[s].pc = "stats"
  /\ \/ feedSources' = [feedSources EXCEPT ![s] = incrementArticleCount(@)]
     \/ UNCHANGED feedSources
  /\ task' = [task EXCEPT ![s].success = TRUE, ![s].pc = "done"]
  /\ UNCHANGED <<now, feedContent, allPc, allSources, allI, allResults, allReturn,
                 cycles>>

\* line 116: await updateCrawlStatus(source.id, false, error.message) in the
\* catch block; a throw here rejects the call.
crawlFeedSource_catch(s) ==
  /\ UNCHANGED nonFeedVars
  /\ task[s].pc = "catch"
  /\ \/ /\ feedSources' = [feedSources EXCEPT
                              ![s] = updateCrawlStatus(@, FALSE, task[s].error, now)]
        /\ task' = [task EXCEPT ![s].pc = "done"]
     \/ /\ task' = [task EXCEPT ![s].pc = "rejected"]
        /\ UNCHANGED feedSources
  /\ UNCHANGED <<now, feedContent, allPc, allSources, allI, allResults, allReturn,
                 cycles>>


(***************************************************************************)
(* RssFeedCrawlerService.crawlAllFeeds.                                    *)
(***************************************************************************)
Settled(f) == f.pc \in {"idle", "done", "rejected"}

\* sources.slice(i): a batch of all the sources from offset i on.
AllRemaining(sources, i) == (i + 1)..Len(sources)

\* sources.slice(i, i + concurrency): the positions of the batch at offset i.
BatchAt(sources, i) == (i + 1)..Min(i + concurrency, Len(sources))

\* batch.map(source => this.crawlFeedSource(source)): every call of the
\* batch runs to its first await.
LaunchBatch(frames, sources, i, t, rows) ==
  [s \in FeedIds |->
     IF \E k \in BatchAt(sources, i) : sources[k].id = s
     THEN StartFrame(sources[CHOOSE k \in BatchAt(sources, i) : sources[k].id = s], t, rows)
     ELSE frames[s]]

\* The model follows MaxCycles crawl cycles of a registry with one active
\* feed and payloads of at most MaxItems items, and one cycle of a registry
\* whose feeds are crawled concurrently or publish longer payloads.
CycleBudget(srcs) ==
  IF /\ Cardinality({s \in DOMAIN srcs : srcs[s].isActive}) <= 1
     /\ payloadLimit <= MaxItems
  THEN MaxCycles
  ELSE 1

\* lines 27-45: the call, the due query (line 32) and the first batch; a
\* throw of the query is caught at line 55 and [] returned.  A new call is
\* taken when no crawl of an earlier call is still running.
crawlAllFeeds_call ==
  /\ UNCHANGED nonFeedVars
  /\ allPc \in {"idle", "returned"}
  /\ \A s \in FeedIds : Settled(task[s])
  /\ cycles < CycleBudget(feedSources)
  /\ cycles' = cycles + 1
  /\ LET idle == [s \in FeedIds |-> IdleFrame(feedSources[s])]
     IN \/ /\ allPc' = "returned"
           /\ allReturn' = <<>>
           /\ allSources' = <<>>
           /\ allResults' = <<>>
           /\ allI' = 0
           /\ task' = idle
        \/ \E sources \in findSourcesDueForCrawling(feedSources, now) :
             /\ allSources' = sources
             /\ allResults' = <<>>
             /\ allI' = 0
             /\ IF Len(sources) = 0
                THEN /\ allPc' = "returned"
                     /\ allReturn' = <<>>
                     /\ task' = idle
                ELSE /\ allPc' = "batch"
                     /\ allReturn' = <<>>
                     /\ task' = LaunchBatch(idle, sources, 0, now, feedContent)
  /\ UNCHANGED <<now, feedSources, feedContent>>

\* lines 41-45: Promise.all of the batch resolved: push its results in batch
\* order, then the next batch or the return at line 54.
crawlAllFeeds_batchResolved ==
  /\ UNCHANGED nonFeedVars
  /\ allPc = "batch"
  /\ \A k \in BatchAt(allSources, allI) : task[allSources[k].id].pc = "done"
  /\ LET batchResults == [j \in 1..Cardinality(BatchAt(allSources, allI)) |->
                             ResultOf(task[allSources[allI + j].id])]
         results == allResults \o batchResults
     IN /\ allResults' = results
        /\ allI' = allI + concurrency
        /\ IF allI + concurrency < Len(allSources)
           THEN /\ allPc' = "batch"
                /\ allReturn' = allReturn
                /\ task' = LaunchBatch(task, allSources, allI + concurrency, now, feedContent)
           ELSE /\ allPc' = "returned"
                /\ allReturn' = results
                /\ task' = task
  /\ UNCHANGED <<now, feedSources, feedContent, allSources, cycles>>

\* lines 41, 55-57: one call of the batch rejected, so Promise.all rejects
\* and the catch returns []; the other calls of the batch keep running.
crawlAllFeeds_batchRejected ==
  /\ UNCHANGED nonFeedVars
  /\ allPc = "batch"
  /\ \E k \in BatchAt(allSources, allI) : task[allSources[k].id].pc = "rejected"
  /\ allPc' = "returned"
  /\ allReturn' = <<>>
  /\ UNCHANGED <<now, feedSources, feedContent, allSources, allI, allResults, task,
                 cycles>>

(***************************************************************************)
(* RssFeedCrawlerService.crawlFeedById (POST /crawl/rss/:id).  Two         *)
(* requests are followed: `task` holds the crawlFeedSource calls of the    *)
(* request whose continuation runs next, `second` those of the other one.  *)
(***************************************************************************)
\* lines 267-276: await findById(sourceId), then crawlFeedSource(source) up
\* to its first await.  Nothing looks for a crawl of the source already in
\* flight.
crawlFeedById_call(s) ==
  /\ requests < MaxRequests
  /\ Settled(task[s])
  /\ requests' = requests + 1
  /\ task' = [task EXCEPT ![s] = StartFrame(feedSources[s], now, feedContent)]
  /\ UNCHANGED <<now, feedSources, feedContent, allPc, allSources, allI, allResults,
                 allReturn, cycles, payloadLimit, second, siteVars, masterVars,
                 kwVars, advances, extractVars, parseVars>>

\* The event loop turns to the continuations of the other request.
OtherRequest ==
  /\ task # second
  /\ task' = second
  /\ second' = task
  /\ UNCHANGED <<now, feedSources, feedContent, allPc, allSources, allI, allResults,
                 allReturn, cycles, payloadLimit, requests, siteVars, masterVars,
                 kwVars, advances, extractVars, parseVars>>

\* Time passes.
Tick ==
  /\ UNCHANGED nonFeedVars
  /\ now < MaxTime
  /\ now' = now + 1
  /\ UNCHANGED <<feedSources, feedContent, allPc, allSources, allI, allResults,
                 allReturn, task, cycles>>


(***************************************************************************)
(* RedditSource / WordPressSource and their repositories.  The two         *)
(* providers have the same shape: an hour-based crawl interval, no         *)
(* consecutiveFailures column, a ring of recent crawl errors.              *)
(***************************************************************************)
SiteTypes == {"reddit", "wordpress"}
SiteIds == 1..NumSites
TicksPerHour == 60 * TicksPerMinute
SiteIntervals == {0, 1}      \* crawlIntervalHours of the configured sources

QueryErrorMessage == "query failed"
SiteErrorMessage == "request or store failed"
NotActiveMessage == "source is not active"
PostErrorMessage == "Error processing post"
CrawlFailedPrefix == "Crawl failed: "

\* A freshly created reddit_sources / wordpress_sources row.
NewSiteSource(id, active, interval) ==
  [id |-> id, isActive |-> active, crawlIntervalHours |-> interval,
   lastCrawledAt |-> NoTime, totalPostsCrawled |-> 0, crawlErrors |-> <<>>]

\* WHERE isActive = true AND (lastCrawledAt IS NULL OR
\*   DATE_ADD(lastCrawledAt, INTERVAL crawlIntervalHours HOUR) <= :now)
IsReadyForCrawl(src, t) ==
  /\ src.isActive = TRUE
  /\ \/ src.lastCrawledAt = NoTime
     \/ src.lastCrawledAt + src.crawlIntervalHours * TicksPerHour <= t

\* findSourcesReadyForCrawl: the set of result lists the query can return
\* (ORDER BY lastCrawledAt ASC leaves the order of ties open).
findSourcesReadyForCrawl(srcs, t) ==
  LET ready == {id \in DOMAIN srcs : IsReadyForCrawl(srcs[id], t)}
  IN {g \in Perms(ready) : OrderedByLastCrawledAt(srcs, g)}

\* RedditSource.recordCrawlError / WordPressSource.recordCrawlError, as
\* saved by the repository's recordCrawlError: lastCrawledAt is not touched.
siteRecordCrawlError(src, error, t) ==
  LET errors == Append(src.crawlErrors, [timestamp |-> t, error |-> error])
      kept == IF Len(errors) > MaxErrors
              THEN SubSeq(errors, Len(errors) - MaxErrors + 1, Len(errors))
              ELSE errors
  IN [src EXCEPT !.crawlErrors = kept]

\* updateCrawlStats(sourceId, newPostsCount, averageSentiment)
updateCrawlStats(src, newPostsCount, t) ==
  [src EXCEPT !.totalPostsCrawled = @ + newPostsCount, !.lastCrawledAt = t]

(***************************************************************************)
(* RedditCrawlerService / WordPressCrawlerService: crawlAllActiveSources   *)
(* and the crawlSource calls it awaits one after the other.                *)
(***************************************************************************)
IdleSite ==
  [pc |-> "idle", sources |-> <<>>, i |-> 0, results |-> <<>>,
   newPosts |-> 0, errors |-> <<>>, error |-> ""]

\* The CrawlResult of the crawlSource call in frame f.
SiteResultOf(f) ==
  [sourceId |-> f.sources[f.i], newPosts |-> f.newPosts, errors |-> f.errors]

\* results.push(result), the delay, and the next source or the return.
FinishSource(f) ==
  LET g == [f EXCEPT !.results = Append(@, SiteResultOf(f)),
                     !.newPosts = 0, !.errors = <<>>, !.error = ""]
  IN IF f.i < Len(f.sources)
     THEN [g EXCEPT !.pc = "findById", !.i = @ + 1]
     ELSE [g EXCEPT !.pc = "returned"]

SiteToCatch(f, msg) == [f EXCEPT !.pc = "catch", !.error = msg]

SiteSettled(f) == f.pc \in {"idle", "returned", "rejected"}

\* POST /crawl/reddit, POST /crawl/wordpress: crawlAllActiveSources() is
\* called and runs to the await of the ready query.  The direct calls are
\* followed one at a time; the master cycle runs the two providers
\* concurrently.
crawlAllActiveSources_call(T) ==
  /\ \A U \in SiteTypes : SiteSettled(site[U])
  /\ master.pc # "awaiting"
  /\ crawls < MaxCrawls
  /\ crawls' = crawls + 1
  /\ site' = [site EXCEPT ![T] = [IdleSite EXCEPT !.pc = "query"]]
  /\ UNCHANGED <<siteSources, streak, masterVars, nonSiteVars>>

\* await findSourcesReadyForCrawl(): outside every try block, so a throw of
\* the query rejects the call.
crawlAllActiveSources_query(T) ==
  /\ site[T].pc = "query"
  /\ \/ site' = [site EXCEPT ![T].pc = "rejected", ![T].error = QueryErrorMessage]
     \/ \E sources \in findSourcesReadyForCrawl(siteSources[T], now) :
          site' = [site EXCEPT ![T].sources = sources,
                               ![T].i = IF Len(sources) = 0 THEN 0 ELSE 1,
                               ![T].pc = IF Len(sources) = 0 THEN "returned"
                                         ELSE "findById"]
  /\ UNCHANGED <<siteSources, streak, crawls, masterVars, nonSiteVars>>

\* crawlSource: await findById(sourceId), then the isActive test.
crawlSource_findById(T) ==
  /\ site[T].pc = "findById"
  /\ \/ site' = [site EXCEPT ![T] = SiteToCatch(@, SiteErrorMessage)]
     \/ site' = [site EXCEPT ![T] =
                   IF siteSources[T][@.sources[@.i]].isActive
                   THEN [@ EXCEPT !.pc = "posts"]
                   ELSE SiteToCatch(@, NotActiveMessage)]
  /\ UNCHANGED <<siteSources, streak, crawls, masterVars, nonSiteVars>>

\* crawlSource: the request for the recent posts and the loop over them.  A
\* failed request throws to the outer catch; a post that cannot be stored
\* adds an error entry and the loop goes on.
crawlSource_posts(T) ==
  /\ site[T].pc = "posts"
  /\ \/ site' = [site EXCEPT ![T] = SiteToCatch(@, SiteErrorMessage)]
     \/ \E n \in 0..MaxPosts, failed \in BOOLEAN :
          site' = [site EXCEPT ![T].newPosts = n,
                               ![T].errors = IF failed THEN <<PostErrorMessage>>
                                             ELSE <<>>,
                               ![T].pc = "stats"]
  /\ UNCHANGED <<siteSources, streak, crawls, masterVars, nonSiteVars>>

\* crawlSource: await updateSourceStats(source, result.newPosts), which logs
\* and swallows a store error; the crawl of the source has succeeded.
crawlSource_updateSourceStats(T) ==
  /\ site[T].pc = "stats"
  /\ LET id == site[T].sources[site[T].i]
     IN /\ \/ siteSources' = [siteSources EXCEPT
                                ![T][id] = updateCrawlStats(@, site[T].newPosts, now)]
           \/ UNCHANGED siteSources
        /\ streak' = [streak EXCEPT ![T][id] = 0]
  /\ site' = [site EXCEPT ![T] = FinishSource(@)]
  /\ UNCHANGED <<crawls, masterVars, nonSiteVars>>

\* crawlSource, outer catch: the error is pushed on the result and recorded
\* on the source inside its own try block.
crawlSource_catch(T) ==
  /\ site[T].pc = "catch"
  /\ LET id == site[T].sources[site[T].i]
     IN /\ \/ siteSources' = [siteSources EXCEPT
                                ![T][id] = siteRecordCrawlError(@, site[T].error, now)]
           \/ UNCHANGED siteSources
        /\ streak' = [streak EXCEPT ![T][id] = @ + 1]
  /\ site' = [site EXCEPT ![T] =
                FinishSource([@ EXCEPT !.errors = Append(@, CrawlFailedPrefix)])]
  /\ UNCHANGED <<crawls, masterVars, nonSiteVars>>

\* An hour passes.
HourPasses ==
  /\ now + TicksPerHour <= MaxHours * TicksPerHour
  /\ now' = now + TicksPerHour
  /\ UNCHANGED <<feedSources, feedContent, allPc, allSources, allI, allResults,
                 allReturn, task, cycles, nonFeedVars>>

(***************************************************************************)
(* MasterCrawlerService.                                                   *)
(***************************************************************************)
MarketTasks == {"binance", "greedFear"}
MarketValues == {0, 1}     \* pairs returned / index value read
MarketErrorMessage == "market request failed"

IdlePromise == [status |-> "idle", value |-> 0, reason |-> ""]
PendingPromise == [IdlePromise EXCEPT !.status = "pending"]

\* The promise of crawlReddit() / crawlWordPress(): it settles as the
\* crawlAllActiveSources call it awaits does (the catch rethrows).
SitePromise(f) ==
  IF f.pc = "returned" THEN [status |-> "fulfilled", value |-> f.results, reason |-> ""]
  ELSE IF f.pc = "rejected" THEN [status |-> "rejected", value |-> <<>>, reason |-> f.error]
  ELSE [status |-> IF f.pc = "idle" THEN "idle" ELSE "pending", value |-> <<>>, reason |-> ""]

RECURSIVE SumNewPosts(_)
\* redditData.reduce((sum, r) => sum + r.newPosts, 0)
SumNewPosts(results) ==
  IF results = <<>> THEN 0
  ELSE results[1].newPosts + SumNewPosts(Tail(results))

RECURSIVE FlatErrors(_)
\* redditData.flatMap(r => r.errors)
FlatErrors(results) ==
  IF results = <<>> THEN <<>>
  ELSE results[1].errors \o FlatErrors(Tail(results))

EmptySiteSection == [totalSources |-> 0, totalPosts |-> 0, errors |-> <<>>]

\* runFullCrawl: the reddit / wordpress part of the report.
SiteSection(p) ==
  IF p.status = "fulfilled"
  THEN [totalSources |-> Len(p.value), totalPosts |-> SumNewPosts(p.value),
        errors |-> FlatErrors(p.value)]
  ELSE [EmptySiteSection EXCEPT !.errors = <<p.reason>>]

\* runFullCrawl: the binance part of the report.
BinanceSection(p) ==
  IF p.status = "fulfilled"
  THEN [symbolsUpdated |-> p.value, errors |-> <<>>]
  ELSE [symbolsUpdated |-> 0, errors |-> <<p.reason>>]

\* runFullCrawl: the greedFear part of the report.
GreedFearSection(p) ==
  IF p.status = "fulfilled"
  THEN [updated |-> TRUE, currentValue |-> p.value, errors |-> <<>>]
  ELSE [updated |-> FALSE, currentValue |-> 0, errors |-> <<p.reason>>]

\* runFullCrawl: the MasterCrawlResult built from the four settled promises.
FullReport(reddit, wordpress, binance, greedFear) ==
  LET r == SiteSection(reddit)
      w == SiteSection(wordpress)
      b == BinanceSection(binance)
      g == GreedFearSection(greedFear)
      totalErrors == Len(r.errors) + Len(w.errors) + Len(b.errors) + Len(g.errors)
  IN [reddit |-> r, wordpress |-> w, binance |-> b, greedFear |-> g,
      totalErrors |-> totalErrors, isSuccessful |-> (totalErrors = 0)]

\* runLightCrawl: a Partial<MasterCrawlResult>; a rejected promise leaves
\* its part at the initial value, totalErrors and isSuccessful are not set.
LightReport(reddit, greedFear) ==
  [reddit |-> IF reddit.status = "fulfilled" THEN SiteSection(reddit)
              ELSE EmptySiteSection,
   greedFear |-> IF greedFear.status = "fulfilled" THEN GreedFearSection(greedFear)
                 ELSE [updated |-> FALSE, currentValue |-> 0, errors |-> <<>>]]

\* Promise.all: resolves when every promise has fulfilled or one has rejected.
allOrFirstRejection(promises) ==
  \/ \A i \in DOMAIN promises : promises[i].status = "fulfilled"
  \/ \E i \in DOMAIN promises : promises[i].status = "rejected"

\* Promise.allSettled: resolves when every promise has settled.
allSettled(promises) ==
  \A i \in DOMAIN promises : promises[i].status \in {"fulfilled", "rejected"}

NoReport == [none |-> TRUE]
IdleMaster == [pc |-> "idle", kind |-> "none", report |-> NoReport]

MasterCanStart ==
  /\ master.pc # "awaiting"
  /\ \A T \in SiteTypes : SiteSettled(site[T])
  /\ \A m \in MarketTasks : market[m].status # "pending"
  /\ runs < MaxRuns

\* runFullCrawl up to the await of Promise.allSettled: the four tasks start.
runFullCrawl_start ==
  /\ MasterCanStart
  /\ runs' = runs + 1
  /\ master' = [pc |-> "awaiting", kind |-> "full", report |-> NoReport]
  /\ site' = [T \in SiteTypes |-> [IdleSite EXCEPT !.pc = "query"]]
  /\ market' = [m \in MarketTasks |-> PendingPromise]
  /\ UNCHANGED <<siteSources, streak, crawls, nonSiteVars>>

\* runLightCrawl up to the await of Promise.allSettled.
runLightCrawl_start ==
  /\ MasterCanStart
  /\ runs' = runs + 1
  /\ master' = [pc |-> "awaiting", kind |-> "light", report |-> NoReport]
  /\ site' = [T \in SiteTypes |->
                IF T = "reddit" THEN [IdleSite EXCEPT !.pc = "query"] ELSE IdleSite]
  /\ market' = [m \in MarketTasks |->
                  IF m = "greedFear" THEN PendingPromise ELSE IdlePromise]
  /\ UNCHANGED <<siteSources, streak, crawls, nonSiteVars>>

\* updateBinanceData: await getTopVolumePairs; the catch rethrows.
updateBinanceData ==
  /\ market["binance"].status = "pending"
  /\ \/ \E v \in MarketValues :
          market' = [market EXCEPT !["binance"].status = "fulfilled",
                                   !["binance"].value = v]
     \/ market' = [market EXCEPT !["binance"].status = "rejected",
                                 !["binance"].reason = MarketErrorMessage]
  /\ UNCHANGED <<master, runs, siteVars, nonSiteVars>>

\* updateGreedFearIndex: await getCurrentIndex; the catch rethrows.
updateGreedFearIndex ==
  /\ market["greedFear"].status = "pending"
  /\ \/ \E v \in MarketValues :
          market' = [market EXCEPT !["greedFear"].status = "fulfilled",
                                   !["greedFear"].value = v]
     \/ market' = [market EXCEPT !["greedFear"].status = "rejected",
                                 !["greedFear"].reason = MarketErrorMessage]
  /\ UNCHANGED <<master, runs, siteVars, nonSiteVars>>

\* runFullCrawl after the await: the report is built and returned.
runFullCrawl_report ==
  /\ master.pc = "awaiting"
  /\ master.kind = "full"
  /\ LET promises == <<SitePromise(site["reddit"]), SitePromise(site["wordpress"]),
                       market["binance"], market["greedFear"]>>
     IN /\ allSettled(promises)
        /\ master' = [master EXCEPT !.pc = "returned",
                        !.report = FullReport(promises[1], promises[2],
                                              promises[3], promises[4])]
  /\ UNCHANGED <<market, runs, siteVars, nonSiteVars>>

\* runLightCrawl after the await.
runLightCrawl_report ==
  /\ master.pc = "awaiting"
  /\ master.kind = "light"
  /\ LET promises == <<SitePromise(site["reddit"]), market["greedFear"]>>
     IN /\ allSettled(promises)
        /\ master' = [master EXCEPT !.pc = "returned",
                        !.report = LightReport(promises[1], promises[2])]
  /\ UNCHANGED <<market, runs, siteVars, nonSiteVars>>


(***************************************************************************)
(* Keyword, KeywordContentLink and their repositories.  Sentiment scores   *)
(* are kept in hundredths, as the decimal(5,2) columns store them.         *)
(***************************************************************************)
\* Keyword texts.  Text k is a lower-case word token, as tokenizeText emits
\* them; text k + NumTerms is the same word written in upper case.
Terms == 1..NumTerms
Contents == 1..NumContents
Frequencies == {2, 3}        \* occurrences of a relevant keyword in a text
\* The sentiment score the analysis gave content item c (hundredths).
SentimentOf(c) == 50 * (c - 1)
minFrequency == 2            \* KeywordService.cleanupKeywords
daysOld == 90                \* KeywordService.cleanupKeywords
TicksPerDay == 24 * TicksPerHour

NoRow == [id |-> 0]
NoCategory == "none"
DuplicateEntryMessage == "duplicate entry"

\* Keyword.normalizeKeyword: lower-case, trim, strip punctuation.  It maps
\* both spellings of a word to the lower-case one, so the tokens the
\* tokenizer hands over are fixed points of it.
normalizeKeyword(keyword) == ((keyword - 1) % NumTerms) + 1

\* findByNormalizedKeyword: the ids of the rows with this normalized term.
findByNormalizedKeyword(rows, normalizedKeyword) ==
  {i \in DOMAIN rows : rows[i].normalizedKeyword = normalizedKeyword}

\* The unique index on keywords.keyword: may a row with this text be
\* inserted?
KeywordIsFree(rows, keyword) == \A i \in DOMAIN rows : rows[i].keyword # keyword

\* findOrCreateKeyword: the entity handed to create().
NewKeyword(id, keyword) ==
  [id |-> id, keyword |-> keyword, normalizedKeyword |-> normalizeKeyword(keyword),
   frequency |-> 1, averageSentiment |-> 0, isActive |-> TRUE,
   category |-> NoCategory]

\* Keyword.categorizeKeyword: the terms of the model fall in no special list.
categorizeKeyword(entity) == "general"

\* Keyword.incrementFrequency
incrementFrequency(entity) == [entity EXCEPT !.frequency = @ + 1]

\* Keyword.updateAverageSentiment: 0.9 * average + 0.1 * new, rounded to the
\* two decimals of the column.
updateAverageSentiment(entity, newSentiment) ==
  [entity EXCEPT !.averageSentiment = (9 * @ + newSentiment + 5) \div 10]

\* repository.save(entity) of an entity that has an id: every column in
\* which the entity differs from the stored row is written, so the row
\* becomes the entity.
save(rows, entity) == [rows EXCEPT ![entity.id] = entity]

\* deactivateRareKeywords(minFrequency): UPDATE ... SET isActive = false
\* WHERE frequency < :minFrequency
deactivateRareKeywords(rows, minimum) ==
  [i \in DOMAIN rows |->
     IF rows[i].frequency < minimum THEN [rows[i] EXCEPT !.isActive = FALSE]
     ELSE rows[i]]

\* findOne({where: {keywordId, contentId, contentType}})
findLink(rows, keywordId, contentId, contentType) ==
  {i \in DOMAIN rows : /\ rows[i].keywordId = keywordId
                       /\ rows[i].contentId = contentId
                       /\ rows[i].contentType = contentType}

\* KeywordContentLink.createLink: relevanceScore is not assigned, the column
\* takes its default 0.0 (hundredths, decimal(3,2)).
createLink(keywordId, contentId, contentType, frequency, sentimentScore, t) ==
  [keywordId |-> keywordId, contentId |-> contentId, contentType |-> contentType,
   frequency |-> frequency, sentimentScore |-> sentimentScore, createdAt |-> t,
   relevanceScore |-> 0]

\* An update of an existing link that stores the frequency of the last run.
overwriteExistingLink(link, frequency, sentimentScore) ==
  [link EXCEPT !.frequency = frequency, !.sentimentScore = sentimentScore]

\* createOrUpdateLink, "Update existing link": link.frequency += frequency
updateExistingLink(link, frequency, sentimentScore) ==
  [link EXCEPT !.frequency = @ + frequency, !.sentimentScore = sentimentScore]

\* deleteOldLinks(daysOld): DELETE ... WHERE createdAt < :cutoffDate
deleteOldLinks(rows, days, t) ==
  SelectSeq(rows, LAMBDA r : ~(r.createdAt < t - days * TicksPerDay))

(***************************************************************************)
(* KeywordService.processContentKeywords and cleanupKeywords.              *)
(***************************************************************************)
\* analysis.relevantKeywords with their frequencies: distinct terms, sorted
\* by descending frequency.
RelevantKeywords ==
  {ks \in UNION {[1..n -> [term : Terms, frequency : Frequencies]] : n \in 1..NumTerms} :
     /\ \A i, j \in DOMAIN ks : i # j => ks[i].term # ks[j].term
     /\ \A i, j \in DOMAIN ks : i < j => ks[i].frequency >= ks[j].frequency}

IdleKw ==
  [pc |-> "idle", contentId |-> 0, terms |-> <<>>, i |-> 0, sentiment |-> 0,
   keyword |-> NoRow, link |-> NoRow, contentLinks |-> <<>>, error |-> ""]

\* isCryptoRelated: term 1 is a word of the crypto vocabulary, the other
\* terms are not.
isCryptoRelated(keyword) == normalizeKeyword(keyword) = 1

\* text.length of content item c.
TextLength(c) == 100 * c

\* text.toLowerCase().indexOf(keyword.toLowerCase()) in content item c: the
\* first term stands at the head of the text, the others follow.
FirstOccurrence(c, keyword) == 25 * (normalizeKeyword(keyword) - 1)

\* calculateRelevanceScore(keyword, text, frequency, isCryptoKeyword), in
\* thousandths.
calculateRelevanceScore(keyword, c, frequency, isCryptoKeyword) ==
  LET frequencyScore == Min(frequency * 100, 1000)
      cryptoBoost == IF isCryptoKeyword THEN 300 ELSE 0
      distance == (FirstOccurrence(c, keyword) * 1000) \div TextLength(c)
      positionScore == IF distance < 1000 THEN 1000 - distance ELSE 0
      relevanceScore == (frequencyScore * 5 + positionScore * 2) \div 10 + cryptoBoost
  IN Min(relevanceScore, 1000)

\* lines 117-123: the ContentKeywordLink pushed for the current keyword.
ContentKeywordLinkOf(f) ==
  LET k == f.terms[f.i]
  IN [keywordId |-> f.keyword.id, keyword |-> k.term, frequency |-> k.frequency,
      relevanceScore |-> calculateRelevanceScore(k.term, f.contentId, k.frequency,
                                                 isCryptoRelated(k.term))]

\* The catch block: the error is logged and [] returned.
KwFail(f, msg) ==
  [IdleKw EXCEPT !.pc = "returned", !.contentId = f.contentId, !.terms = f.terms,
                 !.sentiment = f.sentiment, !.error = msg]

\* contentLinks.push(...), then the next keyword or the return.
KwNext(f) ==
  LET g == [f EXCEPT !.contentLinks = Append(@, ContentKeywordLinkOf(f)),
                     !.keyword = NoRow, !.link = NoRow]
  IN IF f.i < Len(f.terms)
     THEN [g EXCEPT !.pc = "findKeyword", !.i = @ + 1]
     ELSE [g EXCEPT !.pc = "returned", !.i = 0]

\* processContentKeywords(contentId, FEED, text, title, sentimentScore) is
\* called for a content item (setTimeout callback of the crawler, or a later
\* run over the same item) and reaches the first findOrCreateKeyword.
processContentKeywords_call(c) ==
  /\ kwCall[c].pc \in {"idle", "returned"}
  /\ kwRuns < MaxKwRuns
  /\ kwRuns' = kwRuns + 1
  /\ \E ks \in RelevantKeywords :
       kwCall' = [kwCall EXCEPT ![c] = [IdleKw EXCEPT !.pc = "findKeyword",
                                          !.contentId = c, !.terms = ks, !.i = 1,
                                          !.sentiment = SentimentOf(c)]]
  /\ UNCHANGED <<keywords, links, upserts, cleanupPc, nonKwVars>>

\* findOrCreateKeyword: await findByNormalizedKeyword(normalizedKeyword).
findOrCreateKeyword_find(c) ==
  /\ kwCall[c].pc = "findKeyword"
  /\ LET found == findByNormalizedKeyword(keywords,
                     normalizeKeyword(kwCall[c].terms[kwCall[c].i].term))
     IN \/ kwCall' = [kwCall EXCEPT ![c] = KwFail(@, StoreErrorMessage)]
        \/ /\ found = {}
           /\ kwCall' = [kwCall EXCEPT ![c].pc = "createKeyword"]
        \/ \E id \in found :
             kwCall' = [kwCall EXCEPT ![c].keyword = incrementFrequency(keywords[id]),
                                      ![c].pc = "saveKeyword"]
  /\ UNCHANGED <<keywords, links, upserts, cleanupPc, kwRuns, nonKwVars>>

\* findOrCreateKeyword: await create({... frequency: 1 ...}); the insert
\* throws when the unique index on keyword is violated.  Then the category
\* is set on the entity.
findOrCreateKeyword_create(c) ==
  /\ kwCall[c].pc = "createKeyword"
  /\ LET keyword == kwCall[c].terms[kwCall[c].i].term
         entity == NewKeyword(Len(keywords) + 1, keyword)
     IN \/ /\ kwCall' = [kwCall EXCEPT ![c] = KwFail(@, StoreErrorMessage)]
           /\ UNCHANGED keywords
        \/ /\ ~KeywordIsFree(keywords, keyword)
           /\ kwCall' = [kwCall EXCEPT ![c] = KwFail(@, DuplicateEntryMessage)]
           /\ UNCHANGED keywords
        \/ /\ KeywordIsFree(keywords, keyword)
           /\ keywords' = Append(keywords, entity)
           /\ kwCall' = [kwCall EXCEPT
                           ![c].keyword = [entity EXCEPT
                                             !.category = categorizeKeyword(entity)],
                           ![c].pc = "saveKeyword"]
  /\ UNCHANGED <<links, upserts, cleanupPc, kwRuns, nonKwVars>>

\* findOrCreateKeyword: await repository.save(keywordEntity), in both
\* branches.
findOrCreateKeyword_save(c) ==
  /\ kwCall[c].pc = "saveKeyword"
  /\ \/ /\ kwCall' = [kwCall EXCEPT ![c] = KwFail(@, StoreErrorMessage)]
        /\ UNCHANGED keywords
     \/ /\ keywords' = save(keywords, kwCall[c].keyword)
        /\ kwCall' = [kwCall EXCEPT ![c].pc = "findLink"]
  /\ UNCHANGED <<links, upserts, cleanupPc, kwRuns, nonKwVars>>

\* createOrUpdateLink: await findOne({where: {keywordId, contentId,
\* contentType}}).
createOrUpdateLink_find(c) ==
  /\ kwCall[c].pc = "findLink"
  /\ LET found == findLink(links, kwCall[c].keyword.id, c, "feed")
     IN \/ kwCall' = [kwCall EXCEPT ![c] = KwFail(@, StoreErrorMessage)]
        \/ /\ found = {}
           /\ kwCall' = [kwCall EXCEPT ![c].link = NoRow, ![c].pc = "saveLink"]
        \/ \E i \in found :
             kwCall' = [kwCall EXCEPT ![c].link = links[i], ![c].pc = "saveLink"]
  /\ UNCHANGED <<keywords, links, upserts, cleanupPc, kwRuns, nonKwVars>>

\* createOrUpdateLink: await repository.save(link): an update of the link
\* that was found, or the insert of a new one, which throws when the unique
\* index on the triple is violated.
createOrUpdateLink_save(c) ==
  /\ kwCall[c].pc = "saveLink"
  /\ LET keywordId == kwCall[c].keyword.id
         frequency == kwCall[c].terms[kwCall[c].i].frequency
         found == findLink(links, keywordId, c, "feed")
         done == /\ upserts' = [upserts EXCEPT ![<<keywordId, c>>] = Append(@, frequency)]
                 /\ kwCall' = [kwCall EXCEPT ![c].pc = "findKeywordById"]
     IN \/ /\ kwCall' = [kwCall EXCEPT ![c] = KwFail(@, StoreErrorMessage)]
           /\ UNCHANGED <<links, upserts>>
        \/ /\ kwCall[c].link # NoRow
           /\ \E i \in found :
                links' = [links EXCEPT ![i] =
                            updateExistingLink(kwCall[c].link, frequency,
                                               kwCall[c].sentiment)]
           /\ done
        \/ /\ kwCall[c].link = NoRow
           /\ found = {}
           /\ links' = Append(links, createLink(keywordId, c, "feed", frequency,
                                                kwCall[c].sentiment, now))
           /\ done
        \/ /\ kwCall[c].link = NoRow
           /\ found # {}
           /\ kwCall' = [kwCall EXCEPT ![c] = KwFail(@, DuplicateEntryMessage)]
           /\ UNCHANGED <<links, upserts>>
  /\ UNCHANGED <<keywords, cleanupPc, kwRuns, nonKwVars>>

\* updateKeywordSentiment: await findById(keywordId).
updateKeywordSentiment_find(c) ==
  /\ kwCall[c].pc = "findKeywordById"
  /\ \/ kwCall' = [kwCall EXCEPT ![c] = KwFail(@, StoreErrorMessage)]
     \/ kwCall' = [kwCall EXCEPT ![c].keyword = keywords[kwCall[c].keyword.id],
                                 ![c].pc = "saveSentiment"]
  /\ UNCHANGED <<keywords, links, upserts, cleanupPc, kwRuns, nonKwVars>>

\* updateKeywordSentiment: updateAverageSentiment, then await
\* repository.save(keyword); back in processContentKeywords the link is
\* pushed on contentLinks.
updateKeywordSentiment_save(c) ==
  /\ kwCall[c].pc = "saveSentiment"
  /\ \/ /\ kwCall' = [kwCall EXCEPT ![c] = KwFail(@, StoreErrorMessage)]
        /\ UNCHANGED keywords
     \/ /\ keywords' = save(keywords, updateAverageSentiment(kwCall[c].keyword,
                                                             kwCall[c].sentiment))
        /\ kwCall' = [kwCall EXCEPT ![c] = KwNext(@)]
  /\ UNCHANGED <<links, upserts, cleanupPc, kwRuns, nonKwVars>>

\* cleanupKeywords: await deactivateRareKeywords(2).  (A throw is caught and
\* the call returns without a change.)
cleanupKeywords_deactivateRare ==
  /\ cleanupPc = "idle"
  /\ kwRuns < MaxKwRuns
  /\ kwRuns' = kwRuns + 1
  /\ keywords' = deactivateRareKeywords(keywords, minFrequency)
  /\ cleanupPc' = "deleteOldLinks"
  /\ UNCHANGED <<links, upserts, kwCall, nonKwVars>>

\* cleanupKeywords: await deleteOldLinks(90).
cleanupKeywords_deleteOldLinks ==
  /\ cleanupPc = "deleteOldLinks"
  /\ cleanupPc' = "idle"
  /\ \/ links' = deleteOldLinks(links, daysOld, now)
     \/ UNCHANGED links
  /\ UNCHANGED <<keywords, upserts, kwCall, kwRuns, nonKwVars>>


(***************************************************************************)
(* The due query observed over time.                                       *)
(***************************************************************************)
\* The ids the due query returns.
DueIds(srcs, t) ==
  UNION {{q[i].id : i \in DOMAIN q} : q \in findSourcesDueForCrawling(srcs, t)}

\* FeedSource.getNextCrawlTime: now for a source never crawled, otherwise
\* lastCrawledAt with crawlIntervalMinutes added to its minutes.
getNextCrawlTime(src, t) ==
  IF src.lastCrawledAt = NoTime THEN t
  ELSE src.lastCrawledAt + src.crawlIntervalMinutes * TicksPerMinute

\* FeedSource.shouldCrawlNow
shouldCrawlNow(src, t) ==
  IF ~src.isActive THEN FALSE
  ELSE IF src.consecutiveFailures > 5 THEN FALSE
  ELSE t >= getNextCrawlTime(src, t)

\* Rows of feed_sources as crawls and the admin routes leave them.
SchedIntervals == {1, 60}
SchedFailures == {0, maxFailures, maxFailures + 1}
ClockSteps == {1, 30 * TicksPerMinute, 31 * TicksPerMinute}

\* Time passes: a tick, half an hour, or a minute more than that.
AdvanceClock ==
  /\ advances < MaxAdvances
  /\ advances' = advances + 1
  /\ \E d \in ClockSteps : now' = now + d
  /\ UNCHANGED <<feedSources, feedContent, allPc, allSources, allI, allResults,
                 allReturn, task, cycles, siteVars, masterVars, kwVars,
                 requestVars, extractVars, parseVars>>

\* A crawl of a source the due query returned ends without a payload: not
\* modified (updateCrawlStatus(id, true)) or in a fetch error
\* (updateCrawlStatus(id, false, message)).
crawlDueSource(s) ==
  /\ s \in DueIds(feedSources, now)
  /\ \/ feedSources' = [feedSources EXCEPT ![s] = updateCrawlStatus(@, TRUE, "", now)]
     \/ feedSources' = [feedSources EXCEPT
                          ![s] = updateCrawlStatus(@, FALSE, FetchErrorMessage, now)]
  /\ UNCHANGED <<now, feedContent, allPc, allSources, allI, allResults, allReturn,
                 task, cycles, nonFeedVars>>


\* FeedSourceRepository.resetFailedSources: UPDATE feed_sources SET
\* consecutiveFailures = 0 WHERE consecutiveFailures > 0.
resetFailedSources ==
  /\ feedSources' = [s \in FeedIds |->
                       IF feedSources[s].consecutiveFailures > 0
                       THEN [feedSources[s] EXCEPT !.consecutiveFailures = 0]
                       ELSE feedSources[s]]
  /\ UNCHANGED <<now, feedContent, allPc, allSources, allI, allResults, allReturn,
                 task, cycles, nonFeedVars>>
(***************************************************************************)
(* KeywordService.extractKeywordsFromText.  A text is a sequence of the    *)
(* words it is written with; a word stands for its spelling in the text.   *)
(***************************************************************************)
MaxTextLen == 3          \* words in the short texts analysed
maxKeywords == 20        \* processContentKeywords: "Limit to top 20"
minWordLength == 3       \* filterKeywords: word.length >= 3
minKeywordLength == 4    \* relevantKeywords: keyword.length >= 4
minOccurrences == 2      \* relevantKeywords: freq >= 2
NotANumber == -1         \* a frequency that is not a number: it compares
                         \* false with every number

\* Words as they are spelled in a text.
RawWords == {"bitcoin", "Bitcoin,", "the", "btc", "2024", "with", "constructor", "--"}

\* Long-enough words that are neither stopwords nor numbers.
Fillers ==
  <<"word01", "word02", "word03", "word04", "word05", "word06", "word07",
    "word08", "word09", "word10", "word11", "word12", "word13", "word14",
    "word15", "word16", "word17", "word18", "word19", "word20", "word21">>

\* toLowerCase() and replace(/[^\w\s]/g, ' ') on one word; "" when nothing
\* of the word is left.
LowerWord(w) ==
  CASE w = "Bitcoin," -> "bitcoin"
    [] w = "--" -> ""
    [] OTHER -> w

\* word.length of a token.
WordLength(w) ==
  CASE w = "bitcoin" -> 7
    [] w = "the" -> 3
    [] w = "btc" -> 3
    [] w = "2024" -> 4
    [] w = "with" -> 4
    [] w = "constructor" -> 11
    [] OTHER -> 6

\* The members of the stopWords set among the tokens of the model.
stopWords == {"the", "with"}

\* isNumeric: /^\d+$/
isNumeric(str) == str = "2024"

\* The tokens that name a property every object literal inherits from
\* Object.prototype: frequencies[keyword] is a function before the first
\* assignment, not undefined.
InheritedKeys == {"constructor"}

\* .filter(word => word.length > 0)
IsWord(w) == w # ""

\* tokenizeText: lower-case, punctuation to blanks, split at blanks, drop
\* the empty strings.
tokenizeText(t) == SelectSeq([i \in DOMAIN t |-> LowerWord(t[i])], IsWord)

\* The test of filterKeywords.
IsKeyword(word) ==
  /\ WordLength(word) >= minWordLength
  /\ word \notin stopWords
  /\ ~isNumeric(word)

\* filterKeywords
filterKeywords(words) == SelectSeq(words, IsKeyword)

\* (frequencies[keyword] || 0) + 1 for a keyword that is no own property
\* yet: 1, or a function with "1" appended, which is a string.
FirstCount(k) == IF k \in InheritedKeys THEN NotANumber ELSE 1

\* frequencies[keyword] after the n-th execution of
\* frequencies[keyword] = (frequencies[keyword] || 0) + 1: a number grows by
\* one each time, a string stays a string.
CountAfter(k, n) == IF FirstCount(k) = NotANumber THEN NotANumber ELSE FirstCount(k) + (n - 1)

\* calculateFrequencies: the entries of the object it returns, in the order
\* Object.entries lists them: a key is inserted when the loop meets it for
\* the first time and assigned once for each of its occurrences.
calculateFrequencies(kws) ==
  LET IsFirst(i) == \A j \in 1..(i - 1) : kws[j] # kws[i]
      firsts == SelectSeq([i \in DOMAIN kws |-> i], IsFirst)
      Assignments(k) == Cardinality({i \in DOMAIN kws : kws[i] = k})
  IN [n \in DOMAIN firsts |-> <<kws[firsts[n]], CountAfter(kws[firsts[n]], Assignments(kws[firsts[n]]))>>]

\* Array.prototype.sort((a, b) => b[1] - a[1]): a stable sort, so an entry
\* stands behind the entries that count more and behind the entries before
\* it that count the same.
sortByFrequency(entries) ==
  LET Rank(i) == 1 + Cardinality({j \in DOMAIN entries : entries[j][2] > entries[i][2]})
                   + Cardinality({j \in 1..(i - 1) : entries[j][2] = entries[i][2]})
  IN [p \in DOMAIN entries |-> entries[CHOOSE i \in DOMAIN entries : Rank(i) = p]]

\* freq >= 2 && keyword.length >= 4
IsRelevantEntry(e) == e[2] >= minOccurrences /\ WordLength(e[1]) >= minKeywordLength

\* lines 46-49: filter, sort, map to the keyword
relevantKeywordsOf(entries) ==
  LET kept == SelectSeq(entries, IsRelevantEntry)
      sorted == sortByFrequency(kept)
  IN [i \in DOMAIN sorted |-> sorted[i][1]]

\* The KeywordAnalysisResult before any call.
NoAnalysis == [done |-> FALSE, keywordFrequencies |-> <<>>, relevantKeywords |-> <<>>]

\* analysis.relevantKeywords.slice(0, 20)
keywordsToProcess(a) ==
  SubSeq(a.relevantKeywords, 1, Min(maxKeywords, Len(a.relevantKeywords)))

\* The texts analysed: every short text, the text with "bitcoin" 5 times
\* and "the" 20 times, and a text that repeats more than 20 words.
ShortTexts == UNION {[1..n -> RawWords] : n \in 0..MaxTextLen}
Repeat(w, n) == [i \in 1..n |-> w]
ScenarioText == Repeat("the", 20) \o Repeat("bitcoin", 5)
LongText == Fillers \o Repeat("bitcoin", 3) \o Fillers
Texts == ShortTexts \cup {ScenarioText, LongText}

\* extractKeywordsFromText(text, title) with the words of title and text in
\* `text`: lines 40-49 and 56-61.
extractKeywordsFromText ==
  /\ ~analysis.done
  /\ LET keywordFrequencies == calculateFrequencies(filterKeywords(tokenizeText(text)))
     IN analysis' = [done |-> TRUE, keywordFrequencies |-> keywordFrequencies,
                     relevantKeywords |-> relevantKeywordsOf(keywordFrequencies)]
  /\ UNCHANGED <<text, feedVars, siteVars, masterVars, kwVars, advances, requestVars,
                 parseVars>>


(***************************************************************************)
(* RssFeedApiService.parseXmlFeed: the normalizer of RSS 2.0 and Atom      *)
(* documents.  An element of a document is the text it holds, "" or        *)
(* NoVal when the element is missing or empty (both are falsy).            *)
(***************************************************************************)
Formats == {"rss2", "atom"}
RawIds == {NoVal, 1}         \* <guid> of an item, <id> of an entry
RawLinks == {NoVal, 2}       \* <link> of an item or entry
SynthBase == 2               \* synthesized identifiers lie above the given ones
RawTitles == {"", " ", "News"}
RawBodies == {"", "<br>", "Text"}
UntitledTitle == "Untitled"

RawItems == [id : RawIds, link : RawLinks, title : RawTitles, body : RawBodies]
RawFeeds == [format : Formats, items : UNION {[1..n -> RawItems] : n \in 0..MaxRawItems}]
NoDocument == [format |-> "rss2", items |-> <<>>]

\* cleanText: entities decoded, then trim().
cleanText(t) == IF t = " " THEN "" ELSE t

\* cleanHtml: tags replaced by blanks, runs of blanks joined, then trim().
cleanHtml(html) == IF html = "<br>" THEN "" ELSE html

\* `${feedUrl}-${Date.now()}-${Math.random()}`: a value no other evaluation
\* yields; n counts the parse calls before this one, i is the position of
\* the item.
Synthesized(n, i) == SynthBase + n * MaxRawItems + i

\* parseRss2Feed line 131: item.guid?._ || item.guid || item.link || synthesized
rss2Guid(item, n, i) ==
  IF item.id # NoVal THEN item.id
  ELSE IF item.link # NoVal THEN item.link
  ELSE Synthesized(n, i)

\* parseAtomFeed line 163: entry.id || synthesized
atomGuid(entry, n, i) ==
  IF entry.id # NoVal THEN entry.id ELSE Synthesized(n, i)

\* lines 132 and 164: cleanText(item.title || 'Untitled')
titleOf(item) == cleanText(IF item.title # "" THEN item.title ELSE UntitledTitle)

\* extractContent / extractAtomContent: the first content field that is
\* present, through cleanHtml; '' when there is none.
extractContent(item) == IF item.body # "" THEN cleanHtml(item.body) ELSE ""

\* The RssFeedItem built for the item at position i of the document (`raw`
\* keeps that position).
feedItemOf(doc, n, i) ==
  [raw |-> i,
   guid |-> IF doc.format = "rss2" THEN rss2Guid(doc.items[i], n, i)
            ELSE atomGuid(doc.items[i], n, i),
   title |-> titleOf(doc.items[i]),
   content |-> extractContent(doc.items[i])]

\* items.filter(item => item.title && item.content)
IsComplete(item) == item.title # "" /\ item.content # ""

\* parseRss2Feed / parseAtomFeed: the RssFeedData of the n+1-th parse.
parseXmlFeed(doc, n) ==
  [items |-> SelectSeq([i \in DOMAIN doc.items |-> feedItemOf(doc, n, i)], IsComplete)]

\* crawlFeedSource lines 63-71 and 102: the counts of the RssCrawlResult of
\* a crawl that went through the items of `data`.
countsOf(data) == [articlesProcessed |-> Len(data.items), errors |-> <<>>]

\* fetchFeed line 70: the document is fetched and parsed once more.
fetchFeed_parseXmlFeed ==
  /\ Len(parses) < MaxParses
  /\ parses' = Append(parses, parseXmlFeed(rawFeed, Len(parses)))
  /\ UNCHANGED <<rawFeed, feedVars, siteVars, masterVars, kwVars, advances,
                 requestVars, extractVars>>
(***************************************************************************)
(* Initial states.                                                         *)
(***************************************************************************)
\* No feed crawl has run yet.
FeedCrawlerIdle ==
  /\ feedContent = <<>>
  /\ allPc = "idle"
  /\ allSources = <<>>
  /\ allI = 0
  /\ allResults = <<>>
  /\ allReturn = <<>>
  /\ task = [s \in FeedIds |-> IdleFrame(feedSources[s])]
  /\ cycles = 0

\* No site crawl and no master cycle has run yet.
SiteCrawlersIdle ==
  /\ streak = [T \in SiteTypes |-> [i \in SiteIds |-> 0]]
  /\ site = [T \in SiteTypes |-> IdleSite]
  /\ crawls = 0
  /\ market = [m \in MarketTasks |-> IdlePromise]
  /\ master = IdleMaster
  /\ runs = 0

\* No keyword has been processed yet.
KeywordsIdle ==
  /\ keywords = <<>>
  /\ links = <<>>
  /\ upserts = [p \in Terms \X Contents |-> <<>>]
  /\ kwCall = [c \in Contents |-> IdleKw]
  /\ cleanupPc = "idle"
  /\ kwRuns = 0

\* No POST /crawl/rss/:id request has been made, and the feeds publish
\* payloads of at most limit items.
RequestsIdle(limit) ==
  /\ payloadLimit = limit
  /\ second = [s \in FeedIds |-> IdleFrame(feedSources[s])]
  /\ requests = 0

\* No text has been analysed yet.
ExtractorIdle ==
  /\ text = <<>>
  /\ analysis = NoAnalysis

\* No feed document has been parsed yet.
ParserIdle ==
  /\ rawFeed = NoDocument
  /\ parses = <<>>

\* A registry of feeds of which the first k are active.
FeedRegistry ==
  \E iv \in [FeedIds -> CrawlIntervals], k \in 1..MaxActiveFeeds :
    /\ \A s \in FeedIds : s > k => iv[s] = 0
    /\ feedSources = [s \in FeedIds |->
                        [NewFeedSource(s, iv[s]) EXCEPT !.isActive = (s <= k)]]

\* Registries of subreddits and WordPress sites, none crawled yet.
SiteRegistry ==
  \E active \in [SiteTypes -> [SiteIds -> BOOLEAN]],
     iv \in [SiteTypes -> [SiteIds -> SiteIntervals]] :
    /\ \A T \in SiteTypes, i \in SiteIds :
         i > MaxActiveSites => ~active[T][i] /\ iv[T][i] = 0
    /\ siteSources = [T \in SiteTypes |->
                        [i \in SiteIds |-> NewSiteSource(i, active[T][i], iv[T][i])]]

DefaultFeedRegistry ==
  feedSources = [s \in FeedIds |-> NewFeedSource(s, 0)]

DefaultSiteRegistry ==
  siteSources = [T \in SiteTypes |-> [i \in SiteIds |-> NewSiteSource(i, TRUE, 0)]]

\* A registry of feeds in the states crawls and the admin routes leave them.
ScheduledFeedRegistry ==
  \E active \in [FeedIds -> BOOLEAN], iv \in [FeedIds -> SchedIntervals],
     failures \in [FeedIds -> SchedFailures] :
    /\ \A s \in FeedIds :
         s > MaxActiveFeeds => ~active[s] /\ iv[s] = 1 /\ failures[s] = 0
    /\ feedSources = [s \in FeedIds |->
                     [NewFeedSource(s, iv[s]) EXCEPT
                        !.isActive = active[s],
                        !.consecutiveFailures = failures[s]]]

vars == <<feedVars, nonFeedVars>>

(***************************************************************************)
(* The feed crawler (POST /crawl/rss and the scheduler's crawlAllFeeds).   *)
(***************************************************************************)
Init ==
  /\ now = 0
  /\ FeedRegistry
  /\ FeedCrawlerIdle
  /\ DefaultSiteRegistry
  /\ SiteCrawlersIdle
  /\ KeywordsIdle
  /\ advances = 0
  /\ RequestsIdle(MaxItems)
  /\ ExtractorIdle
  /\ ParserIdle

Next ==
  \/ Tick
  \/ crawlAllFeeds_call
  \/ crawlAllFeeds_batchResolved
  \/ crawlAllFeeds_batchRejected
  \/ \E s \in FeedIds : crawlFeedSource_fetchFeed(s)
  \/ \E s \in FeedIds : crawlFeedSource_updateCrawlStatus(s)
  \/ \E s \in FeedIds : updateSourceMetadata(s)
  \/ \E s \in FeedIds : processFeedItems_findByGuid(s)
  \/ \E s \in FeedIds : createFeedContent_create(s)
  \/ \E s \in FeedIds : createFeedContent_update(s)
  \/ \E s \in FeedIds : updateSourceStatistics(s)
  \/ \E s \in FeedIds : crawlFeedSource_catch(s)

Spec == Init /\ [][Next]_vars

(***************************************************************************)
(* One crawl of a feed whose payload carries several items.                *)
(***************************************************************************)
SingleFeedRegistry ==
  \E iv \in CrawlIntervals :
    feedSources = [s \in FeedIds |->
                     [NewFeedSource(s, IF s = 1 THEN iv ELSE 0) EXCEPT !.isActive = (s = 1)]]

InitItems ==
  /\ now = 0
  /\ SingleFeedRegistry
  /\ FeedCrawlerIdle
  /\ DefaultSiteRegistry
  /\ SiteCrawlersIdle
  /\ KeywordsIdle
  /\ advances = 0
  /\ RequestsIdle(MaxBatchItems)
  /\ ExtractorIdle
  /\ ParserIdle

SpecItems == InitItems /\ [][Next]_vars

(***************************************************************************)
(* One per-type crawl of a registry with more sources than a batch holds:  *)
(* POST /crawl/rss, POST /crawl/reddit or POST /crawl/wordpress.  The      *)
(* feeds publish empty payloads, so a feed crawl is its fetch and its      *)
(* writes to the source row.                                               *)
(***************************************************************************)
LastCrawls == {NoTime, 0, 1}   \* lastCrawledAt of feeds that were crawled before

\* All feeds active and due; the first MaxActiveFeeds of them may have been
\* crawled successfully before, the others are new.
CrawledFeedRegistry ==
  \E last \in [FeedIds -> LastCrawls] :
    /\ \A s \in FeedIds : s > MaxActiveFeeds => last[s] = NoTime
    /\ feedSources = [s \in FeedIds |->
                        [NewFeedSource(s, 0) EXCEPT !.lastCrawledAt = last[s],
                                                    !.lastSuccessfulCrawlAt = last[s]]]

InitBatch ==
  /\ now = MaxTime
  /\ CrawledFeedRegistry
  /\ FeedCrawlerIdle
  /\ DefaultSiteRegistry
  /\ SiteCrawlersIdle
  /\ KeywordsIdle
  /\ advances = 0
  /\ RequestsIdle(0)
  /\ ExtractorIdle
  /\ ParserIdle

\* No per-type crawl has been requested yet.
NoCrawlYet == cycles = 0 /\ crawls = 0

\* POST /crawl/rss
crawlRss_request == NoCrawlYet /\ crawlAllFeeds_call

\* POST /crawl/reddit, POST /crawl/wordpress
crawlSites_request(T) == NoCrawlYet /\ crawlAllActiveSources_call(T)

NextBatch ==
  \/ crawlRss_request
  \/ crawlAllFeeds_batchResolved
  \/ crawlAllFeeds_batchRejected
  \/ \E s \in FeedIds : crawlFeedSource_fetchFeed(s)
  \/ \E s \in FeedIds : crawlFeedSource_updateCrawlStatus(s)
  \/ \E s \in FeedIds : updateSourceMetadata(s)
  \/ \E s \in FeedIds : crawlFeedSource_catch(s)
  \/ \E T \in SiteTypes : crawlSites_request(T)
  \/ \E T \in SiteTypes : crawlAllActiveSources_query(T)
  \/ \E T \in SiteTypes : crawlSource_findById(T)
  \/ \E T \in SiteTypes : crawlSource_posts(T)
  \/ \E T \in SiteTypes : crawlSource_updateSourceStats(T)
  \/ \E T \in SiteTypes : crawlSource_catch(T)

SpecBatch == InitBatch /\ [][NextBatch]_vars

(***************************************************************************)
(* Crawls of single feeds requested by POST /crawl/rss/:id; the feeds       *)
(* publish empty payloads.                                                 *)
(***************************************************************************)
InitOwner ==
  /\ now = 0
  /\ SingleFeedRegistry
  /\ FeedCrawlerIdle
  /\ DefaultSiteRegistry
  /\ SiteCrawlersIdle
  /\ KeywordsIdle
  /\ advances = 0
  /\ RequestsIdle(0)
  /\ ExtractorIdle
  /\ ParserIdle

NextOwner ==
  \/ Tick
  \/ OtherRequest
  \/ \E s \in FeedIds : crawlFeedById_call(s)
  \/ \E s \in FeedIds : crawlFeedSource_fetchFeed(s)
  \/ \E s \in FeedIds : crawlFeedSource_updateCrawlStatus(s)
  \/ \E s \in FeedIds : updateSourceMetadata(s)
  \/ \E s \in FeedIds : crawlFeedSource_catch(s)

SpecOwner == InitOwner /\ [][NextOwner]_vars

(***************************************************************************)
(* The subreddit and WordPress crawlers called directly (POST              *)
(* /crawl/reddit, POST /crawl/wordpress).                                  *)
(***************************************************************************)
InitReady ==
  /\ now = 0
  /\ DefaultFeedRegistry
  /\ FeedCrawlerIdle
  /\ SiteRegistry
  /\ SiteCrawlersIdle
  /\ KeywordsIdle
  /\ advances = 0
  /\ RequestsIdle(MaxItems)
  /\ ExtractorIdle
  /\ ParserIdle

NextReady ==
  \/ HourPasses
  \/ \E T \in SiteTypes : crawlAllActiveSources_call(T)
  \/ \E T \in SiteTypes : crawlAllActiveSources_query(T)
  \/ \E T \in SiteTypes : crawlSource_findById(T)
  \/ \E T \in SiteTypes : crawlSource_posts(T)
  \/ \E T \in SiteTypes : crawlSource_updateSourceStats(T)
  \/ \E T \in SiteTypes : crawlSource_catch(T)

SpecReady == InitReady /\ [][NextReady]_vars

(***************************************************************************)
(* The master crawl cycle (POST /crawl/full and the light cycle).          *)
(***************************************************************************)
InitMaster ==
  /\ now = 0
  /\ DefaultFeedRegistry
  /\ FeedCrawlerIdle
  /\ SiteRegistry
  /\ SiteCrawlersIdle
  /\ KeywordsIdle
  /\ advances = 0
  /\ RequestsIdle(MaxItems)
  /\ ExtractorIdle
  /\ ParserIdle

NextMaster ==
  \/ runFullCrawl_start
  \/ runLightCrawl_start
  \/ updateBinanceData
  \/ updateGreedFearIndex
  \/ runFullCrawl_report
  \/ runLightCrawl_report
  \/ \E T \in SiteTypes : crawlAllActiveSources_query(T)
  \/ \E T \in SiteTypes : crawlSource_findById(T)
  \/ \E T \in SiteTypes : crawlSource_posts(T)
  \/ \E T \in SiteTypes : crawlSource_updateSourceStats(T)
  \/ \E T \in SiteTypes : crawlSource_catch(T)

SpecMaster == InitMaster /\ [][NextMaster]_vars

(***************************************************************************)
(* Keyword processing of the content items the crawler stored.             *)
(***************************************************************************)
InitKw ==
  /\ now = 0
  /\ DefaultFeedRegistry
  /\ FeedCrawlerIdle
  /\ DefaultSiteRegistry
  /\ SiteCrawlersIdle
  /\ KeywordsIdle
  /\ advances = 0
  /\ RequestsIdle(MaxItems)
  /\ ExtractorIdle
  /\ ParserIdle

NextKw ==
  \/ cleanupKeywords_deactivateRare
  \/ cleanupKeywords_deleteOldLinks
  \/ \E c \in Contents : processContentKeywords_call(c)
  \/ \E c \in Contents : findOrCreateKeyword_find(c)
  \/ \E c \in Contents : findOrCreateKeyword_create(c)
  \/ \E c \in Contents : findOrCreateKeyword_save(c)
  \/ \E c \in Contents : createOrUpdateLink_find(c)
  \/ \E c \in Contents : createOrUpdateLink_save(c)
  \/ \E c \in Contents : updateKeywordSentiment_find(c)
  \/ \E c \in Contents : updateKeywordSentiment_save(c)

SpecKw == InitKw /\ [][NextKw]_vars

(***************************************************************************)
(* The due query of the scheduler as time passes and feeds are crawled.    *)
(***************************************************************************)
InitSched ==
  /\ now = 0
  /\ ScheduledFeedRegistry
  /\ FeedCrawlerIdle
  /\ DefaultSiteRegistry
  /\ SiteCrawlersIdle
  /\ KeywordsIdle
  /\ advances = 0
  /\ RequestsIdle(MaxItems)
  /\ ExtractorIdle
  /\ ParserIdle

NextSched ==
  \/ AdvanceClock
  \/ \E s \in FeedIds : crawlDueSource(s)

SpecSched == InitSched /\ [][NextSched]_vars

(***************************************************************************)
(* The feed source registry with its maintenance operation.                *)
(***************************************************************************)
NextRegistry ==
  \/ AdvanceClock
  \/ \E s \in FeedIds : crawlDueSource(s)
  \/ resetFailedSources

SpecRegistry == InitSched /\ [][NextRegistry]_vars


(***************************************************************************)
(* The keyword analysis of one text.                                       *)
(***************************************************************************)
InitExtract ==
  /\ now = 0
  /\ DefaultFeedRegistry
  /\ FeedCrawlerIdle
  /\ DefaultSiteRegistry
  /\ SiteCrawlersIdle
  /\ KeywordsIdle
  /\ advances = 0
  /\ RequestsIdle(MaxItems)
  /\ text \in Texts
  /\ analysis = NoAnalysis
  /\ ParserIdle

NextExtract == extractKeywordsFromText

SpecExtract == InitExtract /\ [][NextExtract]_vars

(***************************************************************************)
(* The normalizer applied to one feed document at successive fetches.      *)
(***************************************************************************)
InitParse ==
  /\ now = 0
  /\ DefaultFeedRegistry
  /\ FeedCrawlerIdle
  /\ DefaultSiteRegistry
  /\ SiteCrawlersIdle
  /\ KeywordsIdle
  /\ advances = 0
  /\ RequestsIdle(MaxItems)
  /\ ExtractorIdle
  /\ rawFeed \in RawFeeds
  /\ parses = <<>>

NextParse == fetchFeed_parseXmlFeed

SpecParse == InitParse /\ [][NextParse]_vars
(***************************************************************************)
(* Claims about the feed crawler.                                          *)
(***************************************************************************)
\* The guids that were stored when the crawl of frame f began.
KnownAtStart(f) == {feedContent[r].guid : r \in 1..f.rowsAtStart}

\* A completed crawl all of whose items were stored before it began.
IsSecondPass(f) ==
  /\ f.pc = "done"
  /\ f.kind = "data"
  /\ \A i \in DOMAIN f.items : f.items[i] \in KnownAtStart(f)

\* C1: ingest is idempotent.  At most one feed_content row exists per guid,
\* and a crawl whose items were all ingested before (a second pass) creates
\* no row, reports no new article and leaves the source's
\* totalArticlesCrawled as it was.
C1_IdempotentIngest ==
  /\ \A g \in Guids : Cardinality(findByGuid(feedContent, g)) <= 1
  /\ \A s \in FeedIds :
       IsSecondPass(task[s]) =>
         /\ feedSources[s].totalArticlesCrawled = task[s].source.totalArticlesCrawled
         /\ task[s].newArticles = 0
         /\ \A r \in DOMAIN feedContent :
              r > task[s].rowsAtStart => feedContent[r].sourceId # s

\* C1 witness: a later crawl of a source has re-ingested an item that an
\* earlier crawl of the same source created and counted.
C1_Witness ==
  \E s \in FeedIds :
    /\ IsSecondPass(task[s])
    /\ Len(task[s].items) > 0
    /\ \E r \in DOMAIN feedContent :
         feedContent[r].guid = task[s].items[1] /\ feedContent[r].sourceId = s
    /\ feedSources[s].totalArticlesCrawled = 1

\* C4, as claimed: a crawl that ended in a FetchError leaves the stored
\* consecutiveFailures one above its value before the crawl (k errors raise
\* it from 0 to k), and a completed successful crawl, with a payload or not
\* modified, leaves consecutiveFailures at 0 and lastSuccessfulCrawlAt at the
\* time of that crawl.
C4_FailuresThenSuccess ==
  \A s \in FeedIds :
    task[s].pc = "done" =>
      /\ (~task[s].success /\ task[s].error = FetchErrorMessage) =>
           feedSources[s].consecutiveFailures = task[s].source.consecutiveFailures + 1
      /\ task[s].success =>
           /\ feedSources[s].consecutiveFailures = 0
           /\ feedSources[s].lastSuccessfulCrawlAt # NoTime
           /\ feedSources[s].lastSuccessfulCrawlAt >= task[s].startTime

\* C10, as claimed: crawlAllFeeds returns exactly one result entry for every
\* source the due query handed out, in that order, and the entry of a failed
\* crawl carries its error message.
C10_OneResultPerDueSource ==
  allPc = "returned" =>
    /\ Len(allReturn) = Len(allSources)
    /\ \A i \in DOMAIN allReturn :
         /\ allReturn[i].sourceId = allSources[i].id
         /\ ~allReturn[i].success => allReturn[i].errors # <<>>


\* C11: keyword extraction is triggered for an item if and only if the
\* ingest call newly created its ContentItem.  Every feed_content row whose
\* creating call has moved on from it has been forwarded to keyword
\* extraction exactly once, and no row is forwarded more than once.
C11_ExtractionIffCreated ==
  \A r \in DOMAIN feedContent :
    /\ feedContent[r].extractions <= 1
    /\ \/ feedContent[r].extractions = 1
       \/ \E s \in FeedIds : task[s].pc = "update" /\ task[s].contentId = r

\* processFeedItems has returned in the call of this frame.
ItemsDone(f) ==
  \/ f.pc = "stats"
  \/ f.pc = "done" /\ f.kind = "data" /\ f.success

\* C12: collect-and-continue.  When processFeedItems has gone through a
\* payload, every item of it was looked up whatever happened to the items
\* before it, and each item whose lookup or storing failed is counted as an
\* error of the crawl (one error per failed item, none for the others).
C12_FailedItemsCounted ==
  \A s \in FeedIds :
    ItemsDone(task[s])
    => /\ task[s].processed = Len(task[s].items)
       /\ Len(ResultOf(task[s]).errors) = task[s].itemErrors

\* The crawlFeedSource calls that have started and not yet returned.
InFlight == {s \in FeedIds : ~Settled(task[s])}

\* The crawlSource call of crawlAllActiveSources is running.
SiteInFlight(f) == f.pc \in {"findById", "posts", "stats", "catch"}

\* C13: bounded concurrency within a source type.  During a per-type crawl
\* at most `concurrency` (3) crawlFeedSource calls are in flight, and the
\* crawl of the i-th subreddit or WordPress site is in flight only when the
\* crawls of all i-1 sources before it have finished and left their result.
C13_BoundedConcurrency ==
  /\ Cardinality(InFlight) <= concurrency
  /\ \A T \in SiteTypes :
       SiteInFlight(site[T]) => Len(site[T].results) = site[T].i - 1

\* A feed crawl over more sources than a batch holds with a full batch in
\* flight.
C13_Witness ==
  /\ allPc = "batch"
  /\ Len(allSources) > concurrency
  /\ Cardinality(InFlight) = concurrency

\* C14: a positive consecutiveFailures of a source goes back to 0 only as
\* the effect of a successful fetch of that source, that is, only in a step
\* that is updateCrawlStatus(id, true) on its row.
C14_ResetOnlyBySuccessfulFetch ==
  [][\A s \in FeedIds :
       (feedSources[s].consecutiveFailures > 0 /\ feedSources'[s].consecutiveFailures = 0)
       => feedSources'[s] = updateCrawlStatus(feedSources[s], TRUE, "", now)]_vars

\* C15: single-owner crawl.  At no time are two crawls of the same source
\* in flight, whichever requests started them.
C15_SingleOwner ==
  \A s \in FeedIds : Settled(task[s]) \/ Settled(second[s])

\* The crawl of the source at position k of the due list has been started.
Started(k) == task[allSources[k].id].pc # "idle"

\* C17: the due list is ordered oldest lastCrawledAt first, never-crawled
\* sources before crawled ones, and the crawls are started in that order:
\* of two due sources the one with the older lastCrawledAt stands earlier
\* in the list, and its crawl has been started whenever the other's has.
C17_OldestFirst ==
  \A a, b \in DOMAIN allSources :
    allSources[a].lastCrawledAt < allSources[b].lastCrawledAt
    => /\ a < b
       /\ Started(b) => Started(a)

\* The first batch is in flight, the last source of the list waits, and it
\* was crawled more recently than the first.
C17_Witness ==
  /\ allPc = "batch"
  /\ allI = 0
  /\ Len(allSources) > concurrency
  /\ allSources[1].lastCrawledAt < allSources[Len(allSources)].lastCrawledAt
  /\ Started(1)
  /\ ~Started(Len(allSources))

\* The request of a crawl carries the validators stored for the source, and
\* only a conditional request is answered "not modified", without payload.
ValidatorsSent(s) ==
  /\ task[s].pc = "fetch" =>
       /\ task[s].headers.ifNoneMatch = feedSources[s].etag
       /\ task[s].headers.ifModifiedSince = feedSources[s].lastModified
  /\ task[s].kind = "notModified" =>
       /\ IsConditional(task[s].headers)
       /\ task[s].items = <<>>

\* The crawl of s has returned after a "not modified" answer.
NotModifiedCrawl(s) == task[s].pc = "done" /\ task[s].kind = "notModified"

\* The crawl of s counted no item, stored no content item (so none was
\* forwarded to keyword extraction) and left etag, lastModified and
\* totalArticlesCrawled of the source as they were.
NothingIngested(s) ==
  /\ ResultOf(task[s]).articlesProcessed = 0
  /\ ResultOf(task[s]).newArticles = 0
  /\ \A r \in DOMAIN feedContent :
       r > task[s].rowsAtStart => feedContent[r].sourceId # s
  /\ feedSources[s].etag = task[s].source.etag
  /\ feedSources[s].lastModified = task[s].source.lastModified
  /\ feedSources[s].totalArticlesCrawled = task[s].source.totalArticlesCrawled

PayloadCrawlDone(s) ==
  task[s].pc = "done" /\ task[s].kind = "data" /\ task[s].success

\* C20, as claimed: after a crawl that fetched and ingested a payload
\* successfully has completed, the stored lastCrawledAt of the source is the
\* time of that crawl, so the due query does not return the source before
\* its crawl interval has elapsed; lastSuccessfulCrawlAt is the time of
\* that crawl as well and consecutiveFailures is 0: no later write of the
\* crawl has brought the values from before the crawl back.
C20_CrawlTimeStored ==
  \A s \in FeedIds :
    PayloadCrawlDone(s) =>
      /\ feedSources[s].lastCrawledAt \in task[s].startTime..now
      /\ feedSources[s].lastSuccessfulCrawlAt = feedSources[s].lastCrawledAt
      /\ feedSources[s].consecutiveFailures = 0
      /\ now < task[s].startTime + feedSources[s].crawlIntervalMinutes * TicksPerMinute
         => s \notin DueIds(feedSources, now)

\* C22, as claimed: after a crawl whose fetch returned a payload has
\* completed successfully, the stored etag and lastModified of the source
\* are the validators of that response, an absent validator included (the
\* validator of an older response is not kept in its place), and a fetch of
\* the source sends exactly the stored validators.
C22_ValidatorsOfLastResponse ==
  \A s \in FeedIds :
    /\ PayloadCrawlDone(s) =>
         /\ feedSources[s].etag = task[s].respEtag
         /\ feedSources[s].lastModified = task[s].respLastModified
    /\ task[s].pc = "fetch" => task[s].headers = RequestHeaders(feedSources[s])

\* a is a subsequence of b.
IsSubsequence(a, b) ==
  \E f \in [DOMAIN a -> DOMAIN b] :
    /\ \A i, j \in DOMAIN a : i < j => f[i] < f[j]
    /\ \A i \in DOMAIN a : b[f[i]] = a[i]

\* The rows the running or last crawl of s has inserted, in insertion order.
NewRowsOf(s) ==
  SelectSeq(feedContent, LAMBDA r : r.sourceId = s /\ r.id > task[s].rowsAtStart)

\* The guids of the rows in rs, in their order.
GuidsOf(rs) == [i \in DOMAIN rs |-> rs[i].guid]

\* processFeedItems is at work or has returned in the crawl of s.
InItemLoop(s) ==
  /\ task[s].kind = "data"
  /\ task[s].idx > 0
  /\ task[s].pc \in {"find", "create", "update", "stats", "done"}

\* C23: within the crawl of one source the items are looked up and created
\* in the order of the payload.  The guids of the rows the crawl has
\* inserted, in insertion order, are a subsequence of the items it has
\* reached so far, and when the lookup of an item begins, every row the
\* crawl inserted belongs to an earlier item.
C23_ItemsInPayloadOrder ==
  \A s \in FeedIds :
    InItemLoop(s) =>
      /\ IsSubsequence(GuidsOf(NewRowsOf(s)), SubSeq(task[s].items, 1, task[s].idx))
      /\ task[s].pc = "find" =>
           IsSubsequence(GuidsOf(NewRowsOf(s)), SubSeq(task[s].items, 1, task[s].idx - 1))

\* A crawl stored both items of a payload of two different items, and the
\* lookup of the second began after the first was stored.
C23_Witness ==
  \E s \in FeedIds :
    /\ task[s].pc = "done"
    /\ task[s].success
    /\ Len(task[s].items) = 2
    /\ task[s].items[1] > task[s].items[2]
    /\ GuidsOf(NewRowsOf(s)) = task[s].items

\* The feed_content rows stored for source s.
RowsOf(s) == {r \in DOMAIN feedContent : feedContent[r].sourceId = s}

\* C28, as claimed: whenever no crawl is running, totalArticlesCrawled of
\* every source is the number of content items created for that source, and
\* a completed crawl that created n new items has raised the counter by
\* exactly n.
C28_CounterMatchesCreatedItems ==
  (\A u \in FeedIds : Settled(task[u])) =>
    \A s \in FeedIds :
      /\ feedSources[s].totalArticlesCrawled = Cardinality(RowsOf(s))
      /\ PayloadCrawlDone(s) =>
           feedSources[s].totalArticlesCrawled
             = task[s].source.totalArticlesCrawled + task[s].newArticles
(***************************************************************************)
(* Claims about the subreddit / WordPress crawlers and the master cycle.   *)
(***************************************************************************)
\* C2, as claimed: in every reachable state the due-for-crawl query of every
\* provider (feed, subreddit, WordPress site) returns no source whose
\* consecutive failures exceed the disable threshold of 5.  A feed source
\* stores the count in consecutiveFailures; a subreddit or WordPress source
\* has no such column, its count is the number of crawls of the source that
\* ended in the outer catch since its last successful crawl.
C2_DueQueryRespectsThreshold ==
  /\ \A s \in FeedIds :
       IsDueForCrawling(feedSources[s], now)
       => feedSources[s].consecutiveFailures <= maxFailures
  /\ \A T \in SiteTypes :
       \A q \in findSourcesReadyForCrawl(siteSources[T], now) :
         \A i \in DOMAIN q : streak[T][q[i]] <= maxFailures

\* The promises runFullCrawl awaits, by the part of the report they fill.
FullCrawlPromises ==
  [reddit |-> SitePromise(site["reddit"]), wordpress |-> SitePromise(site["wordpress"]),
   binance |-> market["binance"], greedFear |-> market["greedFear"]]

\* C8: failure isolation across source types.  When runFullCrawl has
\* returned, each of its per-type tasks has run to completion (fulfilled or
\* rejected); a task that rejected contributes exactly one error entry to
\* its part of the report, and the part of every task that fulfilled shows
\* the counts and errors of that task's own result, whatever the other
\* tasks did.
C8_FailureIsolation ==
  (master.pc = "returned" /\ master.kind = "full") =>
    LET p == FullCrawlPromises
        r == master.report
    IN /\ \A k \in DOMAIN p : p[k].status \in {"fulfilled", "rejected"}
       /\ \A k \in DOMAIN p : p[k].status = "rejected" => Len(r[k].errors) = 1
       /\ \A k \in {"reddit", "wordpress"} :
            p[k].status = "fulfilled" =>
              /\ r[k].totalSources = Len(p[k].value)
              /\ r[k].totalPosts = SumNewPosts(p[k].value)
              /\ r[k].errors = FlatErrors(p[k].value)
       /\ p.binance.status = "fulfilled" =>
            r.binance.symbolsUpdated = p.binance.value /\ r.binance.errors = <<>>
       /\ p.greedFear.status = "fulfilled" =>
            /\ r.greedFear.updated
            /\ r.greedFear.currentValue = p.greedFear.value
            /\ r.greedFear.errors = <<>>

\* C8 witness: a full cycle returned a report although the Reddit crawl
\* rejected; the WordPress crawl of the same cycle stored a post and its
\* count is in the report.
C8_Witness ==
  /\ master.pc = "returned"
  /\ master.kind = "full"
  /\ site["reddit"].pc = "rejected"
  /\ Len(master.report.reddit.errors) = 1
  /\ site["wordpress"].pc = "returned"
  /\ master.report.wordpress.totalPosts >= 1
  /\ master.report.totalErrors >= 1

\* C9, as claimed: no crawl entry point throws, and whenever a crawl cycle
\* has returned, its report carries totalErrors equal to the number of error
\* entries recorded in its parts and isSuccessful true exactly when that
\* number is 0.
C9_AlwaysReturnsReport ==
  /\ \A T \in SiteTypes : site[T].pc # "rejected"
  /\ master.pc = "returned" =>
       LET r == master.report
       IN /\ {"totalErrors", "isSuccessful"} \subseteq DOMAIN r
          /\ r.totalErrors = Len(r.reddit.errors) + Len(r.wordpress.errors)
                               + Len(r.binance.errors) + Len(r.greedFear.errors)
          /\ r.isSuccessful <=> (r.totalErrors = 0)


\* The consecutive-failure count a source row stores (a row without such a
\* column stores none).
StoredFailures(src) ==
  IF "consecutiveFailures" \in DOMAIN src THEN src.consecutiveFailures ELSE 0

\* The row `new` is the row `old` with one more failed attempt recorded: one
\* entry with this message at the end of the ring, the oldest entry dropped
\* from a full ring, and the failure count one higher.
FailureRecorded(old, new, msg) ==
  LET n == Len(old.crawlErrors)
      m == Len(new.crawlErrors)
  IN /\ m = Min(n + 1, MaxErrors)
     /\ m > 0
     /\ new.crawlErrors[m].error = msg
     /\ \A k \in 1..(m - 1) : new.crawlErrors[k] = old.crawlErrors[k + (n + 1 - m)]
     /\ StoredFailures(new) = StoredFailures(old) + 1

\* C16: every crawl attempt of a source that ends in a fetch or format
\* error adds exactly one entry to the error ring of that source and
\* increments its consecutiveFailures by exactly 1, for feeds, subreddits
\* and WordPress sites alike; the ring keeps the 10 most recent entries in
\* chronological order.
C16_FailedAttemptRecordedOnce ==
  [][/\ \A s \in FeedIds :
          (task[s].pc = "catch" /\ task'[s].pc # "catch")
          => FailureRecorded(feedSources[s], feedSources'[s], task[s].error)
     /\ \A T \in SiteTypes :
          (site[T].pc = "catch" /\ site[T].error = SiteErrorMessage /\ site'[T].pc # "catch")
          => LET id == site[T].sources[site[T].i]
             IN FailureRecorded(siteSources[T][id], siteSources'[T][id], site[T].error)]_vars

\* C21, as claimed: backoff in time after a failure, for every provider.
\* When a crawl attempt of a source has failed and the failure has been
\* handled, the failed attempt has advanced the stored lastCrawledAt to the
\* time of the attempt, so the due query of the provider does not return the
\* source again before its crawl interval has elapsed.
C21_BackoffAfterFailure ==
  [][/\ \A s \in FeedIds :
          (task[s].pc = "catch" /\ task'[s].pc = "done")
          => /\ feedSources'[s].lastCrawledAt = now
             /\ feedSources'[s].crawlIntervalMinutes > 0
                => ~IsDueForCrawling(feedSources'[s], now)
     /\ \A T \in SiteTypes :
          (site[T].pc = "catch" /\ site[T].error = SiteErrorMessage /\ site'[T].pc # "catch")
          => LET id == site[T].sources[site[T].i]
             IN /\ siteSources'[T][id].lastCrawledAt = now
                /\ siteSources'[T][id].crawlIntervalHours > 0
                   => ~IsReadyForCrawl(siteSources'[T][id], now)]_vars

\* C24, as claimed: a full crawl cycle dispatches a crawl for every due
\* source of all three source types.  When runFullCrawl has returned, the
\* subreddit and the WordPress crawl have run to their end, and no feed
\* source that is due has been left without a crawlFeedSource call.
C24_FullCrawlCoversFeeds ==
  (master.pc = "returned" /\ master.kind = "full") =>
    /\ \A T \in SiteTypes : site[T].pc \in {"returned", "rejected"}
    /\ \A s \in FeedIds :
         task[s].pc = "idle" => ~IsDueForCrawling(feedSources[s], now)
(***************************************************************************)
(* Claims about the due query of the scheduler.                            *)
(***************************************************************************)
\* The due condition as the specification words it.
DueAsSpecified(src, t) ==
  /\ src.isActive
  /\ src.consecutiveFailures <= 5
  /\ \/ src.lastCrawledAt = NoTime
     \/ t >= src.lastCrawledAt + src.crawlIntervalMinutes * TicksPerMinute

\* C3: the due query returns exactly the feed sources that are active, have
\* at most 5 consecutive failures and were never crawled or were last crawled
\* at least crawlIntervalMinutes ago; a 60-minute source last crawled 30
\* minutes ago is not returned and one last crawled 61 minutes ago is; and
\* FeedSource.shouldCrawlNow gives the query's answer for every source.
C3_DueSetExact ==
  \A s \in FeedIds :
    LET src == feedSources[s]
        due == s \in DueIds(feedSources, now)
    IN /\ due <=> DueAsSpecified(src, now)
       /\ due <=> shouldCrawlNow(src, now)
       /\ (/\ src.crawlIntervalMinutes = 60
           /\ src.lastCrawledAt # NoTime
           /\ now = src.lastCrawledAt + 30 * TicksPerMinute) => ~due
       /\ (/\ src.isActive
           /\ src.consecutiveFailures <= 5
           /\ src.crawlIntervalMinutes = 60
           /\ src.lastCrawledAt # NoTime
           /\ now = src.lastCrawledAt + 61 * TicksPerMinute) => due

\* C3 witness: of two active 60-minute feeds, one was last crawled 61 minutes
\* ago and is due, the other was last crawled 30 minutes ago and is not.
C3_Witness ==
  \E s, u \in FeedIds :
    /\ feedSources[s].crawlIntervalMinutes = 60
    /\ feedSources[u].crawlIntervalMinutes = 60
    /\ feedSources[u].isActive
    /\ feedSources[u].consecutiveFailures <= 5
    /\ feedSources[s].lastCrawledAt # NoTime
    /\ feedSources[u].lastCrawledAt # NoTime
    /\ now = feedSources[s].lastCrawledAt + 61 * TicksPerMinute
    /\ now = feedSources[u].lastCrawledAt + 30 * TicksPerMinute
    /\ s \in DueIds(feedSources, now)
    /\ u \notin DueIds(feedSources, now)

(***************************************************************************)
(* Claims about keywords and their links.                                  *)
(***************************************************************************)
RECURSIVE SumSeq(_)
SumSeq(fs) == IF fs = <<>> THEN 0 ELSE fs[1] + SumSeq(Tail(fs))

\* At most one link row per (keywordId, contentId, contentType).
OneLinkPerTriple ==
  \A i, j \in DOMAIN links :
    (/\ links[i].keywordId = links[j].keywordId
     /\ links[i].contentId = links[j].contentId
     /\ links[i].contentType = links[j].contentType) => i = j

C6_FrequencyMonotone ==
  [][\A k \in DOMAIN keywords : keywords'[k].frequency >= keywords[k].frequency]_vars

\* C7, as claimed: with processContentKeywords calls for different content
\* items interleaved at their awaits, there is one Keyword row per normalized
\* term and one link per triple, no call fails on a duplicate entry, and a
\* call that returned without an error has linked every keyword it was given.
C7_AtomicFindOrCreate ==
  /\ \A t \in Terms :
       Cardinality(findByNormalizedKeyword(keywords, normalizeKeyword(t))) <= 1
  /\ OneLinkPerTriple
  /\ \A c \in Contents :
       kwCall[c].pc = "returned" =>
         /\ kwCall[c].error # DuplicateEntryMessage
         /\ kwCall[c].error = "" =>
              /\ Len(kwCall[c].contentLinks) = Len(kwCall[c].terms)
              /\ \A i \in DOMAIN kwCall[c].terms :
                   \E k \in findByNormalizedKeyword(keywords,
                               normalizeKeyword(kwCall[c].terms[i].term)) :
                     findLink(links, k, c, "feed") # {}


\* The relevance score as the specification computes it, in thousandths:
\* 0.5 * min(freq/10, 1) + 0.2 * positionScore + 0.3 * cryptoBoost, with
\* cryptoBoost 0.3 for a term of the crypto vocabulary and 0 otherwise.
RelevanceAsSpecified(keyword, c, frequency) ==
  LET normalizedFrequency == Min(frequency * 100, 1000)
      distance == (FirstOccurrence(c, keyword) * 1000) \div TextLength(c)
      positionScore == IF distance < 1000 THEN 1000 - distance ELSE 0
      cryptoBoost == IF isCryptoRelated(keyword) THEN 300 ELSE 0
  IN (5 * normalizedFrequency + 2 * positionScore + 3 * cryptoBoost) \div 10

\* A score in thousandths as a decimal(3,2) column stores it, in hundredths.
RoundToHundredths(x) == (x + 5) \div 10

\* C26, as claimed: every link written for a kept keyword stores the
\* relevance score computed for that keyword in the run that wrote the link
\* last, and the stored score lies in [0, 1].
C26_LinkStoresRelevance ==
  \A i \in DOMAIN links :
    LET written == upserts[<<links[i].keywordId, links[i].contentId>>]
    IN written # <<>> =>
         /\ links[i].relevanceScore \in 0..100
         /\ links[i].relevanceScore =
              RoundToHundredths(RelevanceAsSpecified(keywords[links[i].keywordId].keyword,
                                                     links[i].contentId, written[Len(written)]))

\* The processContentKeywords call for content item c has returned without
\* an error and has kept the keyword with this text.
KeptBy(c, keyword) ==
  /\ kwCall[c].pc = "returned"
  /\ kwCall[c].error = ""
  /\ \E i \in DOMAIN kwCall[c].terms : kwCall[c].terms[i].term = keyword

\* C29, as claimed: no lost update on the keyword counter.  When one call
\* for each of N distinct new content items has run to its end, in any
\* interleaving of the reads and writes of the calls, and each of them kept
\* term t, the Keyword row of t has frequency N.
C29_NoLostFrequencyUpdate ==
  \A t \in Terms :
    (/\ kwRuns = NumContents
     /\ \A c \in Contents : KeptBy(c, t))
    => \E k \in findByNormalizedKeyword(keywords, normalizeKeyword(t)) :
         keywords[k].frequency = NumContents

\* The keyword ids of the links the processContentKeywords call for content
\* item c returned.
ReturnedLinks(c) ==
  {kwCall[c].contentLinks[i].keywordId : i \in DOMAIN kwCall[c].contentLinks}

\* The keyword ids of the links written for content item c.
WrittenLinks(c) == {p[1] : p \in {q \in DOMAIN upserts : q[2] = c /\ upserts[q] # <<>>}}

\* C30, as claimed: the list processContentKeywords returns is exactly the
\* set of links the call wrote.  After the first call has returned, with or
\* without a failed persistence step, the links it returned are the links
\* written, and a call that returned an empty list has left no keyword row
\* and no link.
C30_ResultAccountsForWrites ==
  \A c \in Contents :
    (kwRuns = 1 /\ kwCall[c].pc = "returned") =>
      /\ ReturnedLinks(c) = WrittenLinks(c)
      /\ kwCall[c].contentLinks = <<>> => (keywords = <<>> /\ links = <<>>)

(***************************************************************************)
(* Claims about the keyword analysis.                                      *)
(***************************************************************************)
\* The number of times token w occurs in the sequence of tokens toks.
Occurrences(toks, w) == Cardinality({i \in DOMAIN toks : toks[i] = w})

\* The tokens of a text that are to be kept: not a stopword, not purely
\* numeric, at least 4 characters long and met at least twice.
KeptTokens(toks) ==
  {w \in Range(toks) : /\ w \notin stopWords
                       /\ ~isNumeric(w)
                       /\ WordLength(w) >= 4
                       /\ Occurrences(toks, w) >= 2}

\* C19: keyword selection.  For every text the keywords processed for a
\* content item are exactly the tokens that are no stopwords, not purely
\* numeric, at least 4 long and occur at least twice, in descending order
\* of frequency, cut to the 20 most frequent; the text with "bitcoin" 5
\* times and "the" 20 times keeps "bitcoin" only.
C19_KeywordSelection ==
  analysis.done =>
    LET toks == tokenizeText(text)
        kept == KeptTokens(toks)
        p == keywordsToProcess(analysis)
    IN /\ Range(p) \subseteq kept
       /\ \A i, j \in DOMAIN p : i # j => p[i] # p[j]
       /\ Len(p) = Min(maxKeywords, Cardinality(kept))
       /\ \A i, j \in DOMAIN p :
            i < j => Occurrences(toks, p[i]) >= Occurrences(toks, p[j])
       /\ \A w \in kept \ Range(p), i \in DOMAIN p :
            Occurrences(toks, w) <= Occurrences(toks, p[i])
       /\ text = ScenarioText => p = <<"bitcoin">>

(***************************************************************************)
(* Claims about the normalizer.                                            *)
(***************************************************************************)
\* The identifiers a document can give: the ids and links of its elements.
GivenIdentifiers == (RawIds \cup RawLinks) \ {NoVal}

\* The identifier the specification asks for: the explicit guid/id first,
\* else the link, else a synthesized value.
IdentifierAsSpecified(raw, guid) ==
  IF raw.id # NoVal THEN guid = raw.id
  ELSE IF raw.link # NoVal THEN guid = raw.link
  ELSE guid \notin GivenIdentifiers

\* C25, as claimed: for RSS 2.0 items and Atom entries alike the identifier
\* of an item is its explicit guid/id, else its link, else a synthesized
\* value; so an item that carries an id or a link has the same identifier
\* in every fetch of the document.
C25_StableIdentifier ==
  /\ \A p \in DOMAIN parses : \A k \in DOMAIN parses[p].items :
       LET it == parses[p].items[k]
       IN IdentifierAsSpecified(rawFeed.items[it.raw], it.guid)
  /\ \A p, q \in DOMAIN parses :
       \A k \in DOMAIN parses[p].items, m \in DOMAIN parses[q].items :
         LET a == parses[p].items[k]
             b == parses[q].items[m]
             raw == rawFeed.items[a.raw]
         IN (a.raw = b.raw /\ (raw.id # NoVal \/ raw.link # NoVal)) => a.guid = b.guid

\* The item has a title, the item has a body: text is left of the element
\* after cleaning.
HasTitle(raw) == cleanText(raw.title) # ""
HasBody(raw) == cleanHtml(raw.body) # ""

\* The positions of the document whose items the parse kept.
KeptPositions(data) == {data.items[k].raw : k \in DOMAIN data.items}

\* C27, as claimed: an item without title and without body is dropped, an
\* item with a title or a body is kept, the items of a document are kept or
\* dropped independently of each other, and every drop is counted in the
\* result of the crawl: the items processed and the errors counted add up
\* to the items of the document.
C27_InvalidItemsDroppedAndCounted ==
  \A p \in DOMAIN parses :
    /\ \A i \in DOMAIN rawFeed.items :
         i \in KeptPositions(parses[p])
         <=> (HasTitle(rawFeed.items[i]) \/ HasBody(rawFeed.items[i]))
    /\ countsOf(parses[p]).articlesProcessed + Len(countsOf(parses[p]).errors)
         = Len(rawFeed.items)
=============================================================================
